---- MODULE Spec2Model ----
(***************************************************************************)
(* Query gating and streaming orchestration of the Nat agent lambdas:      *)
(* usage tracking (rate limit, billing-cycle reset, quota counter), the    *)
(* subscription check, and the streaming handler with its confirmation     *)
(* gate.                                                                   *)
(***************************************************************************)
EXTENDS Integers, Sequences, FiniteSets, TLC

(***************************************************************************)
(* Bounds of the model.                                                    *)
(***************************************************************************)
\* clock values are 0..MaxTime
MaxTime == 6
\* messages the agent emits in one turn before the stream ends
MaxBlocks == 2
\* invocations served in one behaviour
MaxRequests == 2
\* stored counter and limit values drawn for the quota checks: 0..MaxUsed
MaxUsed == 3
\* requests of one nation served concurrently
MaxWorkers == 2
\* the scheduled runs of the token refresh job
MaxRuns == 2

(***************************************************************************)
(* Program constants.                                                      *)
(***************************************************************************)
RATE_LIMIT_COOLDOWN_SECONDS == 5
\* str(message.result)[:500]
RESULT_TRUNCATE == 500
\* nation.get("queries_limit", 50)
DEFAULT_NATION_LIMIT == 50
\* tenant.get("queries_limit", 500)
DEFAULT_TENANT_LIMIT == 500

\* An optional value (an item that may be missing, an attribute that may be
\* unset, a Python value that may be None) is <<>> or <<v>>.
None == <<>>
Some(v) == << v >>
Val(o) == o[1]

SSE_EVENT_TEXT == "text"
SSE_EVENT_TOOL_USE == "tool_use"
SSE_EVENT_TOOL_RESULT == "tool_result"
SSE_EVENT_ERROR == "error"
SSE_EVENT_DONE == "done"
SSE_EVENT_CONFIRMATION_REQUIRED == "confirmation_required"

DESTRUCTIVE_TOOLS ==
    { "delete_signup", "delete_contact", "delete_donation", "delete_event",
      "delete_event_rsvp", "delete_path_journey", "remove_from_list",
      "update_signup", "update_donation", "update_event" }

ACTIVE_STATUSES == { "active", "trialing" }

(***************************************************************************)
(* Strings.  A Python str is a TLA+ string; `sub in s` is substring search.*)
(***************************************************************************)
Contains(sub, s) ==
    \E i \in 1..(Len(s) - Len(sub) + 1) : SubSeq(s, i, i + Len(sub) - 1) = sub

\* Python truthiness of a str: a missing field reads as "", and "" is falsy
Truthy(v) == v /= ""

(***************************************************************************)
(* JSON values and json.dumps.  A value is a string, a literal (a number,  *)
(* true, false, null: rendered as it stands), an object (a sequence of     *)
(* <<key, value>> pairs in insertion order) or an array.                   *)
(***************************************************************************)
JS(s) == [kind |-> "str", s |-> s, items |-> <<>>]
JL(s) == [kind |-> "lit", s |-> s, items |-> <<>>]
JO(items) == [kind |-> "obj", s |-> "", items |-> items]
JA(items) == [kind |-> "arr", s |-> "", items |-> items]
JBool(b) == JL(IF b THEN "true" ELSE "false")
JInt(n) == JL(ToString(n))

\* dict.get(key, default) on an object
JGet(obj, key, default) ==
    IF \E i \in 1..Len(obj.items) : obj.items[i][1] = key
    THEN obj.items[CHOOSE i \in 1..Len(obj.items) : obj.items[i][1] = key][2]
    ELSE default

JHas(obj, key) == \E i \in 1..Len(obj.items) : obj.items[i][1] = key

\* the JSON string escape of json.dumps for the two characters it must escape
RECURSIVE JsonEscape(_)
JsonEscape(s) ==
    IF Len(s) = 0 THEN ""
    ELSE LET c == SubSeq(s, 1, 1)
             rest == JsonEscape(SubSeq(s, 2, Len(s)))
         IN  IF c = "\"" THEN "\\\"" \o rest
             ELSE IF c = "\\" THEN "\\\\" \o rest
             ELSE c \o rest

\* the order of sorted(): the keys the model uses, in code-point order
KeyOrder ==
    << "error", "filter", "id", "list_id", "note", "person_id" >>

KeyRank(k) == CHOOSE i \in 1..Len(KeyOrder) : KeyOrder[i] = k

\* insertion of one pair into a sequence of pairs sorted by key
RECURSIVE InsertByKey(_, _)
InsertByKey(pair, sorted) ==
    IF Len(sorted) = 0 THEN << pair >>
    ELSE IF KeyRank(pair[1]) <= KeyRank(Head(sorted)[1])
         THEN << pair >> \o sorted
         ELSE << Head(sorted) >> \o InsertByKey(pair, Tail(sorted))

RECURSIVE SortByKey(_)
SortByKey(items) ==
    IF Len(items) = 0 THEN <<>>
    ELSE InsertByKey(Head(items), SortByKey(Tail(items)))

\* json.dumps(v, sort_keys=sort_keys): separators ", " and ": "
RECURSIVE JsonDumps(_, _)
RECURSIVE JsonJoin(_, _, _)
JsonJoin(items, isObj, sort_keys) ==
    IF Len(items) = 0 THEN ""
    ELSE LET h == Head(items)
             one == IF isObj
                    THEN "\"" \o JsonEscape(h[1]) \o "\": " \o JsonDumps(h[2], sort_keys)
                    ELSE JsonDumps(h, sort_keys)
         IN  IF Len(items) = 1 THEN one
             ELSE one \o ", " \o JsonJoin(Tail(items), isObj, sort_keys)

JsonDumps(v, sort_keys) ==
    IF v.kind = "str" THEN "\"" \o JsonEscape(v.s) \o "\""
    ELSE IF v.kind = "lit" THEN v.s
    ELSE IF v.kind = "arr" THEN "[" \o JsonJoin(v.items, FALSE, sort_keys) \o "]"
    ELSE "{" \o JsonJoin(IF sort_keys THEN SortByKey(v.items) ELSE v.items,
                         TRUE, sort_keys) \o "}"

\* f"event: {event_type}\ndata: {json.dumps(data)}\n\n"
format_sse_event(event_type, data) ==
    "event: " \o event_type \o "\ndata: " \o JsonDumps(data, FALSE) \o "\n\n"

(***************************************************************************)
(* usage_tracking.py: the decisions of the Usage Gate as functions of the  *)
(* item read and the timestamp.                                            *)
(***************************************************************************)
Allowed == [raised |-> FALSE, retry_after |-> 0]

\* the cooldown with its boundary excluded
check_rate_limit_exclusive(item, current_time) ==
    IF item = None THEN Allowed
    ELSE IF Val(item).last_query_at = None THEN Allowed
    ELSE LET elapsed == current_time - Val(Val(item).last_query_at)
         IN  IF elapsed <= RATE_LIMIT_COOLDOWN_SECONDS
             THEN [raised |-> TRUE,
                   retry_after |-> RATE_LIMIT_COOLDOWN_SECONDS - elapsed]
             ELSE Allowed

\* check_rate_limit after get_item returned `item` (None: no Item)
check_rate_limit(item, current_time) ==
    IF item = None THEN Allowed
    ELSE IF Val(item).last_query_at = None THEN Allowed
    ELSE LET elapsed == current_time - Val(Val(item).last_query_at)
         IN  IF elapsed < RATE_LIMIT_COOLDOWN_SECONDS
             THEN [raised |-> TRUE,
                   retry_after |-> RATE_LIMIT_COOLDOWN_SECONDS - elapsed]
             ELSE Allowed

\* the condition with the start of the period itself excluded
billing_cycle_needs_reset_strict(item, current_time) ==
    /\ item /= None
    /\ Val(item).billing_period_start /= None
    /\ current_time > Val(Val(item).billing_period_start)
    /\ \/ Val(item).usage_reset_at = None
       \/ Val(Val(item).usage_reset_at) < Val(Val(item).billing_period_start)

\* the condition under which check_and_reset_billing_cycle_nation writes
billing_cycle_needs_reset(item, current_time) ==
    /\ item /= None
    /\ Val(item).billing_period_start /= None
    /\ current_time >= Val(Val(item).billing_period_start)
    /\ \/ Val(item).usage_reset_at = None
       \/ Val(Val(item).usage_reset_at) < Val(Val(item).billing_period_start)

\* SET queries_used_this_period = :zero, usage_reset_at = :now (an upsert)
EmptyNation ==
    [queries_used_this_period |-> None, queries_limit |-> None,
     billing_period_start |-> None, usage_reset_at |-> None,
     subscription_status |-> None]

\* the reset that leaves no trace of itself
reset_usage_unmarked(item, current_time) ==
    Some([(IF item = None THEN EmptyNation ELSE Val(item))
            EXCEPT !.queries_used_this_period = Some(0)])

reset_usage(item, current_time) ==
    Some([(IF item = None THEN EmptyNation ELSE Val(item))
            EXCEPT !.queries_used_this_period = Some(0),
                   !.usage_reset_at = Some(current_time)])

\* check_and_reset_billing_cycle_nation run by one caller, the store
\* answering: what it returns and the item it leaves
check_and_reset_billing_cycle_nation(item, current_time) ==
    IF billing_cycle_needs_reset(item, current_time)
    THEN [returned |-> TRUE, item |-> reset_usage(item, current_time)]
    ELSE [returned |-> FALSE, item |-> item]

\* the counter as the code reads it: int(item.get("queries_used_this_period", 0))
Used(item) ==
    IF item = None \/ Val(item).queries_used_this_period = None THEN 0
    ELSE Val(Val(item).queries_used_this_period)

\* the increment written as a plain SET of the first count
increment_query_count_nation_overwrite(item) ==
    LET base == IF item = None THEN EmptyNation ELSE Val(item)
    IN  Some([base EXCEPT !.queries_used_this_period = Some(1)])

\* SET queries_used_this_period = if_not_exists(queries_used_this_period, 0) + 1
increment_query_count_nation(item) ==
    LET base == IF item = None THEN EmptyNation ELSE Val(item)
        old == IF base.queries_used_this_period = None THEN 0
               ELSE Val(base.queries_used_this_period)
    IN  Some([base EXCEPT !.queries_used_this_period = Some(old + 1)])

\* SET last_query_at = :timestamp (an upsert)
EmptyUser == [last_query_at |-> None]

update_last_query_time(item, current_time) ==
    Some([(IF item = None THEN EmptyUser ELSE Val(item))
            EXCEPT !.last_query_at = Some(current_time)])

(***************************************************************************)
(* subscription_middleware.py: the quota checks of both tenancy models.    *)
(* The result is "valid" or the SubscriptionErrorCode raised.              *)
(***************************************************************************)
verify_nation_subscription(nation) ==
    LET subscription_status == IF nation.subscription_status = None THEN "none"
                               ELSE Val(nation.subscription_status)
        queries_used == IF nation.queries_used_this_period = None THEN 0
                        ELSE Val(nation.queries_used_this_period)
        queries_limit == IF nation.queries_limit = None THEN DEFAULT_NATION_LIMIT
                         ELSE Val(nation.queries_limit)
    IN  IF subscription_status \notin ACTIVE_STATUSES THEN "SUBSCRIPTION_INACTIVE"
        ELSE IF queries_limit > 0 /\ queries_used >= queries_limit
             THEN "QUERY_LIMIT_EXCEEDED"
             ELSE "valid"

verify_subscription(tenant) ==
    LET subscription_status == IF tenant.stripe_subscription_status = None THEN ""
                               ELSE Val(tenant.stripe_subscription_status)
        queries_this_month == IF tenant.queries_this_month = None THEN 0
                              ELSE Val(tenant.queries_this_month)
        queries_limit == IF tenant.queries_limit = None THEN DEFAULT_TENANT_LIMIT
                         ELSE Val(tenant.queries_limit)
    IN  IF subscription_status \notin ACTIVE_STATUSES THEN "SUBSCRIPTION_INACTIVE"
        ELSE IF queries_this_month >= queries_limit THEN "QUERY_LIMIT_EXCEEDED"
             ELSE "valid"

(***************************************************************************)
(* nat_agent_streaming/handler.py: the confirmation gate.                  *)
(***************************************************************************)
\* what the agent can say in the model: text blocks, tool-use blocks, the
\* result message, and the messages of the exceptions it can raise
Texts == { "hi", "all done" }

InputA == JO(<< <<"id", JS("7")>>, <<"note", JS("n")>> >>)
\* InputA with its keys in the other order
InputAr == JO(<< <<"note", JS("n")>>, <<"id", JS("7")>> >>)
\* InputA with another value
InputB == JO(<< <<"id", JS("8")>>, <<"note", JS("n")>> >>)
InputId == JO(<< <<"id", JS("7")>> >>)
InputFilter == JO(<< <<"filter", JO(<< <<"error", JS("x")>> >>)>> >>)
\* an input with a nested object, and the same input with the nested keys in
\* the other order
InputNested == JO(<< <<"filter", JO(<< <<"id", JS("7")>>, <<"note", JS("n")>> >>)>> >>)
InputNestedR == JO(<< <<"filter", JO(<< <<"note", JS("n")>>, <<"id", JS("7")>> >>)>> >>)

ToolCalls ==
    { [name |-> "list_signups", input |-> InputFilter],
      [name |-> "update_signup", input |-> InputA],
      [name |-> "update_signup", input |-> InputAr],
      [name |-> "update_signup", input |-> InputB],
      [name |-> "delete_signup", input |-> InputId] }

Results == { [result |-> "ok", is_error |-> FALSE] }

\* str(e) of the exceptions the agent call can raise
ErrorMessages == { "boom" }

\* the hash seeds of the interpreter processes (str hashes are salted per process)
HashSeeds == { 1, 2 }

\* hash(s) in a process with the given seed: injective in (seed, s) on the
\* canonical strings of the model (a 64-bit keyed hash without collisions)
ToolInputs ==
    { c.input : c \in ToolCalls } \cup { InputNested, InputNestedR }

CanonStrings == { JsonDumps(input, TRUE) : input \in ToolInputs }

HashTable ==
    CHOOSE f \in [CanonStrings -> 1..Cardinality(CanonStrings)] :
        \A a, b \in CanonStrings : a /= b => f[a] /= f[b]

PyHash(seed, s) == seed * 100 + HashTable[s]

\* tool_id = f"{block.name}_{hash(json.dumps(block.input, sort_keys=True))}"
ToolId(seed, name, input) ==
    name \o "_" \o ToString(PyHash(seed, JsonDumps(input, TRUE)))

\* str() of a value inside an f-string
PyStr(v) == IF v.kind \in {"str", "lit"} THEN v.s ELSE JsonDumps(v, FALSE)

generate_tool_summary(tool_name, tool_input) ==
    LET get(k) == PyStr(JGet(tool_input, k, JS("unknown")))
    IN  CASE tool_name = "delete_signup" -> "Delete person record " \o get("person_id")
          [] tool_name = "delete_contact" -> "Delete contact record " \o get("id")
          [] tool_name = "delete_donation" -> "Delete donation record " \o get("id")
          [] tool_name = "delete_event" -> "Delete event " \o get("id")
          [] tool_name = "delete_event_rsvp" -> "Delete RSVP " \o get("id") \o " from event"
          [] tool_name = "delete_path_journey" -> "Delete journey " \o get("id") \o " from path"
          [] tool_name = "remove_from_list" ->
                "Remove person " \o get("person_id") \o " from list " \o get("list_id")
          [] tool_name = "update_signup" -> "Update person record " \o get("person_id")
          [] tool_name = "update_donation" -> "Update donation record " \o get("id")
          [] tool_name = "update_event" -> "Update event " \o get("id")
          [] OTHER -> "Execute " \o tool_name

\* the gate opened for every call by any confirmation at all
needs_confirmation_unless_any(seed, name, input, confirmed) ==
    name \in DESTRUCTIVE_TOOLS /\ confirmed = {}

\* block.name in DESTRUCTIVE_TOOLS and tool_id not in confirmed
needs_confirmation(seed, name, input, confirmed) ==
    name \in DESTRUCTIVE_TOOLS /\ ToolId(seed, name, input) \notin confirmed

\* str(message.result)[:500]
truncate_result(s) ==
    IF Len(s) > RESULT_TRUNCATE THEN SubSeq(s, 1, RESULT_TRUNCATE) ELSE s

\* the payloads of the six events
TextData(text) == JO(<< <<"text", JS(text)>> >>)
ToolInfo(call) == JO(<< <<"name", JS(call.name)>>, <<"input", call.input>> >>)
ToolResultData(r) ==
    JO(<< <<"result", JS(truncate_result(r.result))>>, <<"is_error", JBool(r.is_error)>> >>)
ConfirmationData(seed, call) ==
    JO(<< <<"tool_id", JS(ToolId(seed, call.name, call.input))>>,
          <<"tool_name", JS(call.name)>>,
          <<"tool_input", call.input>>,
          <<"summary", JS(generate_tool_summary(call.name, call.input))>> >>)
ErrorData(message, code) ==
    JO(<< <<"error", JS(message)>>, <<"error_code", JS(code)>> >>)
\* the rejection without its retry hint
RateLimitDataNoRetry(retry_after) ==
    JO(<< <<"error", JS("Rate limit exceeded. Please wait " \o ToString(retry_after)
                        \o " seconds.")>>,
          <<"error_code", JS("RATE_LIMIT_EXCEEDED")>> >>)

RateLimitData(retry_after) ==
    JO(<< <<"error", JS("Rate limit exceeded. Please wait " \o ToString(retry_after)
                        \o " seconds.")>>,
          <<"error_code", JS("RATE_LIMIT_EXCEEDED")>>,
          <<"retry_after", JInt(retry_after)>> >>)
RECURSIVE Concat(_)
Concat(parts) == IF Len(parts) = 0 THEN "" ELSE Head(parts) \o Concat(Tail(parts))
\* the completion notice carrying only the last text fragment
DoneDataLastText(full_response, tool_calls) ==
    JO(<< <<"response", JS(IF Len(full_response) = 0 THEN ""
                           ELSE full_response[Len(full_response)])>>,
          <<"tool_calls", JA(tool_calls)>> >>)
DoneData(full_response, tool_calls) ==
    JO(<< <<"response", JS(Concat(full_response))>>, <<"tool_calls", JA(tool_calls)>> >>)
DoneErrorData(message) ==
    JO(<< <<"response", JS("")>>, <<"tool_calls", JA(<<>>)>>, <<"error", JS(message)>> >>)

\* process_streaming_request, line 529: the test that marks the turn successful
is_successful_done(event) ==
    LET wire == format_sse_event(event.type, event.data)
    IN  Contains(SSE_EVENT_DONE, wire) /\ ~Contains("\"error\":", wire)

(***************************************************************************)
(* State.                                                                  *)
(***************************************************************************)
VARIABLES
    now,        \* get_current_timestamp()
    nations,    \* NationsTable: nation_slug -> optional item
    users,      \* UsersTable: user_id -> optional item
    secrets,    \* Secrets Manager, nat/nation/{slug}/nb-tokens -> optional secret
    inv,        \* the invocation in flight: its position and its locals
    client,     \* the caller: the confirmation request it last received
    remaining,  \* invocations still to be served
    chk,        \* argument and result of a function applied on its own
    cyc,        \* concurrent callers of the usage tracking of one nation
    job,        \* the token refresh job: its position, its locals, its report
    proc,       \* one interpreter process: nat.client._client and its turns
    overlap     \* two runs of the token refresh job on one credential

vars ==
    << now, nations, users, secrets, inv, client, remaining, chk, cyc, job,
       proc, overlap >>

Nations == { "n1" }
Users == { "u1" }

IdleInv ==
    [ pc |-> "idle", query |-> "", user_id |-> "", nation_slug |-> "",
      confirmed |-> {}, seed |-> 1, events |-> <<>>, full_response |-> <<>>,
      tool_calls |-> <<>>, stream_succeeded |-> FALSE, blocks |-> 0,
      current_time |-> 0, nb_token |-> "", nb_slug |-> "",
      agent_started |-> FALSE,
      \* history: the writes of this invocation, whether a write of its usage
      \* tracking failed, and the store it started from
      increments |-> 0, marks |-> 0, resets |-> 0, faulted |-> FALSE,
      resubmitted |-> None, agent_calls |-> <<>>,
      pre_nations |-> [n \in Nations |-> None],
      pre_users |-> [u \in Users |-> None] ]

Workers == 1..MaxWorkers

\* no concurrent caller has started; history: the reset writes, the
\* increments, the increments made after a reset, the counter at the start
NoCyc ==
    [ w |-> [p \in Workers |-> [pc |-> "billing_read", current_time |-> 0]],
      resets |-> 0, incs |-> 0, incs_after |-> 0, used0 |-> 0 ]

NoChk == [fn |-> "", arg |-> None, t |-> 0, faulted |-> FALSE, result |-> None]

\* the users of the token refresh job
RefreshUsers == { "u1", "u2" }

\* the turns in flight in one process, each for its own organization
Turns == { "n1", "n2" }

\* nat.client._client before init_client; no turn has started
NoProc ==
    [ client |-> None,
      turns |-> [t \in Turns |-> [pc |-> "idle", nb_token |-> "", calls |-> <<>>]] ]

\* the two runs of the token refresh job, before they start; the refresh
\* tokens the provider has consumed
Runs == { 1, 2 }
NoOverlap ==
    [ run |-> [r \in Runs |-> [pc |-> "idle", tokens |-> None, response |-> None,
                              result |-> None]],
      consumed |-> {}, issued |-> 0 ]

\* the refresh job has not run; history: the runs started and the exchange
\* calls of the current run per user
NoJob ==
    [ pc |-> "idle", runs |-> 0, scanned |-> <<>>, queue |-> <<>>,
      tokens |-> None, response |-> None, results |-> <<>>, report |-> None,
      exchanges |-> [u \in RefreshUsers |-> 0] ]

\* `yield event` inside the `async for` of process_streaming_request: the
\* event is forwarded and then tested for a successful completion
Forward(i, evs) ==
    [i EXCEPT !.events = @ \o evs,
              !.stream_succeeded =
                  @ \/ \E k \in 1..Len(evs) : is_successful_done(evs[k])]

\* the end of stream_agent_response: lines 532-535 of process_streaming_request
AfterStream(i) ==
    [i EXCEPT !.pc = IF i.stream_succeeded THEN "track_time" ELSE "returned"]

Event(type, data) == [type |-> type, data |-> data]

(***************************************************************************)
(* process_streaming_request.                                              *)
(***************************************************************************)
\* a request arrives: lines 454-460
\* The caller sends confirmed_tools = c; when c is not empty it holds the
\* tool_id of the confirmation request the caller received last.
Invoke(q, u, n, c, seed) ==
    /\ inv.pc \in {"idle", "returned", "raised"}
    /\ remaining > 0
    /\ remaining' = remaining - 1
    /\ inv' = [IdleInv EXCEPT !.pc = "validate", !.query = q, !.user_id = u,
                              !.nation_slug = n, !.confirmed = c, !.seed = seed,
                              !.resubmitted = IF c = {} THEN None ELSE client,
                              !.pre_nations = nations, !.pre_users = users]
    /\ UNCHANGED << proc, overlap, now, nations, users, secrets, client, chk, cyc, job >>

\* the validation with user_id tested before query
ValidateRequestUserFirst ==
    /\ inv.pc = "validate"
    /\ LET missing == IF ~Truthy(inv.user_id) THEN "user_id"
                      ELSE IF ~Truthy(inv.query) THEN "query"
                      ELSE IF ~Truthy(inv.nation_slug) THEN "nation_slug"
                      ELSE ""
       IN  inv' = IF missing /= ""
                  THEN [inv EXCEPT !.pc = "returned",
                            !.events = @ \o << Event(SSE_EVENT_ERROR,
                                ErrorData("Missing required field: " \o missing,
                                          "BAD_REQUEST")) >>]
                  ELSE [inv EXCEPT !.pc = "billing_read"]
    /\ UNCHANGED << proc, overlap, now, nations, users, secrets, client, remaining, chk, cyc, job >>

\* lines 462-481
ValidateRequest ==
    /\ inv.pc = "validate"
    /\ LET missing == IF ~Truthy(inv.query) THEN "query"
                      ELSE IF ~Truthy(inv.user_id) THEN "user_id"
                      ELSE IF ~Truthy(inv.nation_slug) THEN "nation_slug"
                      ELSE ""
       IN  inv' = IF missing /= ""
                  THEN [inv EXCEPT !.pc = "returned",
                            !.events = @ \o << Event(SSE_EVENT_ERROR,
                                ErrorData("Missing required field: " \o missing,
                                          "BAD_REQUEST")) >>]
                  ELSE [inv EXCEPT !.pc = "billing_read"]
    /\ UNCHANGED << proc, overlap, now, nations, users, secrets, client, remaining, chk, cyc, job >>

\* check_and_reset_billing_cycle_nation: get_item and the decision
BillingCycleRead ==
    /\ inv.pc = "billing_read"
    /\ \E fault \in BOOLEAN :
         inv' = IF fault THEN [inv EXCEPT !.pc = "rate"]
                ELSE IF billing_cycle_needs_reset(nations[inv.nation_slug], now)
                THEN [inv EXCEPT !.pc = "billing_write", !.current_time = now]
                ELSE [inv EXCEPT !.pc = "rate"]
    /\ UNCHANGED << proc, overlap, now, nations, users, secrets, client, remaining, chk, cyc, job >>

\* check_and_reset_billing_cycle_nation: update_item
BillingCycleWrite ==
    /\ inv.pc = "billing_write"
    /\ \E fault \in BOOLEAN :
         IF fault
         THEN /\ inv' = [inv EXCEPT !.pc = "rate"]
              /\ UNCHANGED nations
         ELSE /\ nations' = [nations EXCEPT ![inv.nation_slug] =
                                reset_usage(@, inv.current_time)]
              /\ inv' = [inv EXCEPT !.pc = "rate", !.resets = @ + 1]
    /\ UNCHANGED << proc, overlap, now, users, secrets, client, remaining, chk, cyc, job >>

\* the rate-limit rejection without its return
RateLimitCheckNoReturn ==
    /\ inv.pc = "rate"
    /\ \E fault \in BOOLEAN :
         LET r == IF fault THEN Allowed
                  ELSE check_rate_limit(users[inv.user_id], now)
         IN  inv' = IF r.raised
                    THEN [inv EXCEPT !.pc = "tokens",
                              !.events = @ \o << Event(SSE_EVENT_ERROR,
                                                  RateLimitData(r.retry_after)) >>]
                    ELSE [inv EXCEPT !.pc = "tokens"]
    /\ UNCHANGED << proc, overlap, now, nations, users, secrets, client, remaining, chk, cyc, job >>

\* lines 494-503: check_rate_limit; a ClientError of the lookup is swallowed
RateLimitCheck ==
    /\ inv.pc = "rate"
    /\ \E fault \in BOOLEAN :
         LET r == IF fault THEN Allowed
                  ELSE check_rate_limit(users[inv.user_id], now)
         IN  inv' = IF r.raised
                    THEN [inv EXCEPT !.pc = "returned",
                              !.events = @ \o << Event(SSE_EVENT_ERROR,
                                                  RateLimitData(r.retry_after)) >>]
                    ELSE [inv EXCEPT !.pc = "tokens"]
    /\ UNCHANGED << proc, overlap, now, nations, users, secrets, client, remaining, chk, cyc, job >>

\* lines 505-514: get_nb_tokens_by_nation
ResolveTokens ==
    /\ inv.pc = "tokens"
    /\ \E fault \in BOOLEAN :
         LET secret == secrets[inv.nation_slug]
         IN  inv' =
               IF fault THEN [inv EXCEPT !.pc = "raised"]
               ELSE IF secret = None \/ ~Truthy(Val(secret).access_token)
               THEN [inv EXCEPT !.pc = "returned",
                         !.events = @ \o << Event(SSE_EVENT_ERROR,
                             ErrorData("NationBuilder not connected for this nation",
                                       "NB_NOT_CONNECTED")) >>]
               ELSE [inv EXCEPT !.pc = "options",
                         !.nb_token = Val(secret).access_token,
                         !.nb_slug = IF Truthy(Val(secret).nation_slug)
                                     THEN Val(secret).nation_slug
                                     ELSE inv.nation_slug]
    /\ UNCHANGED << proc, overlap, now, nations, users, secrets, client, remaining, chk, cyc, job >>

(***************************************************************************)
(* stream_agent_response, consumed by process_streaming_request.           *)
(***************************************************************************)
\* line 378: create_nat_options, outside the try
BuildOptions ==
    /\ inv.pc = "options"
    /\ \E ok \in BOOLEAN :
         inv' = [inv EXCEPT !.pc = IF ok THEN "connect" ELSE "raised"]
    /\ UNCHANGED << proc, overlap, now, nations, users, secrets, client, remaining, chk, cyc, job >>

\* the except branch with the done event carrying the text received so far
ErroredKeepsResponse(i, message) ==
    AfterStream(Forward(i, << Event(SSE_EVENT_ERROR, ErrorData(message, "AGENT_ERROR")),
                              Event(SSE_EVENT_DONE,
                                    JO(<< <<"response", JS(Concat(i.full_response))>>,
                                          <<"tool_calls", JA(i.tool_calls)>>,
                                          <<"error", JS(message)>> >>)) >>))

\* lines 431-441: the except branch yields an error and then a done event
Errored(i, message) ==
    AfterStream(Forward(i, << Event(SSE_EVENT_ERROR, ErrorData(message, "AGENT_ERROR")),
                              Event(SSE_EVENT_DONE, DoneErrorData(message)) >>))

\* lines 383-384: the client is opened and the prompt is sent
ClientConnect ==
    /\ inv.pc = "connect"
    /\ \/ inv' = [inv EXCEPT !.pc = "receive", !.agent_started = TRUE]
       \/ \E message \in ErrorMessages :
            inv' = Errored([inv EXCEPT !.agent_started = TRUE], message)
    /\ UNCHANGED << proc, overlap, now, nations, users, secrets, client, remaining, chk, cyc, job >>

\* lines 389-394: a text block
ReceiveText(text) ==
    /\ inv.pc = "receive"
    /\ inv.blocks < MaxBlocks
    /\ inv' = Forward([inv EXCEPT !.blocks = @ + 1,
                                  !.full_response = Append(@, text)],
                      << Event(SSE_EVENT_TEXT, TextData(text)) >>)
    /\ UNCHANGED << proc, overlap, now, nations, users, secrets, client, remaining, chk, cyc, job >>

\* the gate with the early return of line 408 left out
ReceiveToolUseNoReturn(call) ==
    /\ inv.pc = "receive"
    /\ inv.blocks < MaxBlocks
    /\ IF needs_confirmation(inv.seed, call.name, call.input, inv.confirmed)
       THEN /\ inv' = Forward([inv EXCEPT !.blocks = @ + 1,
                                          !.agent_calls = Append(@, call),
                                          !.tool_calls = Append(@, ToolInfo(call))],
                         << Event(SSE_EVENT_CONFIRMATION_REQUIRED,
                                  ConfirmationData(inv.seed, call)),
                            Event(SSE_EVENT_TOOL_USE, ToolInfo(call)) >>)
            /\ client' = Some(ConfirmationData(inv.seed, call))
       ELSE /\ inv' = Forward([inv EXCEPT !.blocks = @ + 1,
                                          !.agent_calls = Append(@, call),
                                          !.tool_calls = Append(@, ToolInfo(call))],
                              << Event(SSE_EVENT_TOOL_USE, ToolInfo(call)) >>)
            /\ UNCHANGED client
    /\ UNCHANGED << proc, overlap, now, nations, users, secrets, remaining, chk, cyc, job >>

\* lines 395-416: a tool-use block, through the confirmation gate
ReceiveToolUse(call) ==
    /\ inv.pc = "receive"
    /\ inv.blocks < MaxBlocks
    /\ IF needs_confirmation(inv.seed, call.name, call.input, inv.confirmed)
       THEN /\ inv' = AfterStream(Forward([inv EXCEPT !.blocks = @ + 1,
                                                      !.agent_calls = Append(@, call)],
                         << Event(SSE_EVENT_CONFIRMATION_REQUIRED,
                                  ConfirmationData(inv.seed, call)) >>))
            /\ client' = Some(ConfirmationData(inv.seed, call))
       ELSE /\ inv' = Forward([inv EXCEPT !.blocks = @ + 1,
                                          !.agent_calls = Append(@, call),
                                          !.tool_calls = Append(@, ToolInfo(call))],
                              << Event(SSE_EVENT_TOOL_USE, ToolInfo(call)) >>)
            /\ UNCHANGED client
    /\ UNCHANGED << proc, overlap, now, nations, users, secrets, remaining, chk, cyc, job >>

\* lines 418-423: a result message
ReceiveResult(r) ==
    /\ inv.pc = "receive"
    /\ inv.blocks < MaxBlocks
    /\ inv' = Forward([inv EXCEPT !.blocks = @ + 1],
                      << Event(SSE_EVENT_TOOL_RESULT, ToolResultData(r)) >>)
    /\ UNCHANGED << proc, overlap, now, nations, users, secrets, client, remaining, chk, cyc, job >>

\* lines 425-429: the message stream ends
ReceiveEnd ==
    /\ inv.pc = "receive"
    /\ inv' = AfterStream(Forward(inv,
                 << Event(SSE_EVENT_DONE, DoneData(inv.full_response, inv.tool_calls)) >>))
    /\ UNCHANGED << proc, overlap, now, nations, users, secrets, client, remaining, chk, cyc, job >>

\* an exception while receiving
ReceiveFail(message) ==
    /\ inv.pc = "receive"
    /\ inv' = Errored(inv, message)
    /\ UNCHANGED << proc, overlap, now, nations, users, secrets, client, remaining, chk, cyc, job >>

(***************************************************************************)
(* track_query_usage_nation.                                               *)
(***************************************************************************)
\* update_last_query_time: a ClientError is logged and swallowed
UpdateLastQueryTime ==
    /\ inv.pc = "track_time"
    /\ \E fault \in BOOLEAN :
         IF fault
         THEN /\ inv' = [inv EXCEPT !.pc = "track_count", !.faulted = TRUE]
              /\ UNCHANGED users
         ELSE /\ users' = [users EXCEPT ![inv.user_id] = update_last_query_time(@, now)]
              /\ inv' = [inv EXCEPT !.pc = "track_count", !.marks = @ + 1]
    /\ UNCHANGED << proc, overlap, now, nations, secrets, client, remaining, chk, cyc, job >>

\* increment_query_count_nation: a ClientError is re-raised
IncrementQueryCount ==
    /\ inv.pc = "track_count"
    /\ \E fault \in BOOLEAN :
         IF fault
         THEN /\ inv' = [inv EXCEPT !.pc = "raised", !.faulted = TRUE]
              /\ UNCHANGED nations
         ELSE /\ nations' = [nations EXCEPT ![inv.nation_slug] =
                                increment_query_count_nation(@)]
              /\ inv' = [inv EXCEPT !.pc = "returned", !.increments = @ + 1]
    /\ UNCHANGED << proc, overlap, now, users, secrets, client, remaining, chk, cyc, job >>

\* time passes between invocations and while the agent call is awaited
Tick ==
    /\ \/ inv.pc = "connect"
       \/ inv.pc \in {"idle", "returned", "raised"} /\ remaining > 0
    /\ now < MaxTime
    /\ now' = now + 1
    /\ UNCHANGED << proc, overlap, nations, users, secrets, inv, client, remaining, chk, cyc, job >>

(***************************************************************************)
(* Specifications.                                                         *)
(***************************************************************************)
NationItems ==
    { None } \cup
    { Some([queries_used_this_period |-> used, queries_limit |-> Some(1),
            billing_period_start |-> bps, usage_reset_at |-> reset,
            subscription_status |-> Some("active")]) :
        used \in {None, Some(1)}, bps \in {None, Some(2)},
        reset \in {None, Some(0)} }

UserItems == { None, Some([last_query_at |-> Some(0)]) }

SecretItems == { None, Some([access_token |-> "tok", nation_slug |-> "n1"]) }

\* what a caller puts into confirmed_tools: nothing, or the tool_id of the
\* confirmation request it received last
ConfirmedSets ==
    { {} } \cup (IF client = None THEN {}
                 ELSE { { PyStr(JGet(Val(client), "tool_id", JS(""))) } })

Request ==
    \E q \in {"", "find"}, u \in {""} \cup Users, n \in {""} \cup Nations,
       c \in ConfirmedSets, seed \in HashSeeds :
        Invoke(q, u, n, c, seed)

\* a well-formed request of the one user of the one nation
Resubmit ==
    \E c \in ConfirmedSets, seed \in HashSeeds :
        Invoke("find", "u1", "n1", c, seed)

\* the steps of an invocation after its arrival
Handle ==
    \/ ValidateRequest
    \/ BillingCycleRead
    \/ BillingCycleWrite
    \/ RateLimitCheck
    \/ ResolveTokens
    \/ BuildOptions
    \/ ClientConnect
    \/ \E text \in Texts : ReceiveText(text)
    \/ \E call \in ToolCalls : ReceiveToolUse(call)
    \/ \E r \in Results : ReceiveResult(r)
    \/ ReceiveEnd
    \/ \E message \in ErrorMessages : ReceiveFail(message)
    \/ UpdateLastQueryTime
    \/ IncrementQueryCount

Next == Request \/ Handle \/ Tick

\* one invocation against every initial store
Init ==
    /\ now = 0
    /\ nations \in [Nations -> NationItems]
    /\ users \in [Users -> UserItems]
    /\ secrets \in [Nations -> SecretItems]
    /\ inv = IdleInv
    /\ client = None
    /\ remaining = 1
    /\ chk = NoChk
    /\ job = NoJob
    /\ proc = NoProc
    /\ overlap = NoOverlap
    /\ cyc = NoCyc

Spec == Init /\ [][Next]_vars

\* the pause and resubmit protocol: MaxRequests invocations against one store
InitConfirm ==
    /\ now = 0
    /\ nations = [n \in Nations |->
                    Some([queries_used_this_period |-> Some(0), queries_limit |-> Some(0),
                          billing_period_start |-> Some(0), usage_reset_at |-> None,
                          subscription_status |-> Some("active")])]
    /\ users = [u \in Users |-> Some([last_query_at |-> None])]
    /\ secrets = [n \in Nations |-> Some([access_token |-> "tok", nation_slug |-> "n1"])]
    /\ inv = IdleInv
    /\ client = None
    /\ remaining = MaxRequests
    /\ chk = NoChk
    /\ job = NoJob
    /\ proc = NoProc
    /\ overlap = NoOverlap
    /\ cyc = NoCyc

NextConfirm == Resubmit \/ Handle

SpecConfirm == InitConfirm /\ [][NextConfirm]_vars

(***************************************************************************)
(* check_rate_limit and update_last_query_time applied on their own, over  *)
(* every stored marker and every current time.                             *)
(***************************************************************************)
\* the check failing closed on a ClientError of get_item
CheckRateLimitFailClosed(u) ==
    /\ \E fault \in BOOLEAN :
          chk' = [fn |-> "check_rate_limit", arg |-> Some(users[u]), t |-> now,
                  faulted |-> fault,
                  result |-> Some(IF fault
                                  THEN [raised |-> TRUE,
                                        retry_after |-> RATE_LIMIT_COOLDOWN_SECONDS]
                                  ELSE check_rate_limit(users[u], now))]
    /\ UNCHANGED << proc, overlap, now, nations, users, secrets, inv, client, remaining, cyc, job >>

\* usage_tracking.py lines 52-97; a ClientError of get_item fails open
CheckRateLimit(u) ==
    /\ \E fault \in BOOLEAN :
          chk' = [fn |-> "check_rate_limit", arg |-> Some(users[u]), t |-> now,
                  faulted |-> fault,
                  result |-> Some(IF fault THEN Allowed
                                  ELSE check_rate_limit(users[u], now))]
    /\ UNCHANGED << proc, overlap, now, nations, users, secrets, inv, client, remaining, cyc, job >>

\* usage_tracking.py lines 100-120; a ClientError of update_item is swallowed
MarkQuery(u) ==
    /\ \E fault \in BOOLEAN :
          users' = IF fault THEN users
                   ELSE [users EXCEPT ![u] = update_last_query_time(@, now)]
    /\ UNCHANGED << proc, overlap, now, nations, secrets, inv, client, remaining, chk, cyc, job >>

NextRate ==
    \/ \E u \in Users : CheckRateLimit(u)
    \/ \E u \in Users : MarkQuery(u)
    \/ Tick

InitRate ==
    /\ now = 0
    /\ nations = [n \in Nations |-> None]
    /\ users \in [Users -> { None, Some(EmptyUser) }]
    /\ secrets = [n \in Nations |-> None]
    /\ inv = IdleInv
    /\ client = None
    /\ remaining = 1
    /\ chk = NoChk
    /\ job = NoJob
    /\ proc = NoProc
    /\ overlap = NoOverlap
    /\ cyc = NoCyc

SpecRate == InitRate /\ [][NextRate]_vars

(***************************************************************************)
(* The quota checks of both tenancy models applied on their own, over      *)
(* every stored record.                                                    *)
(***************************************************************************)
Counts == { None } \cup { Some(k) : k \in 0..MaxUsed }
Statuses == { None, Some("active"), Some("trialing"), Some("canceled") }

QuotaNationItems ==
    [ queries_used_this_period : Counts, queries_limit : Counts,
      billing_period_start : { None }, usage_reset_at : { None },
      subscription_status : Statuses ]

QuotaTenantItems ==
    [ queries_this_month : Counts, queries_limit : Counts,
      stripe_subscription_status : Statuses ]

\* subscription_middleware.py lines 165-217, the nation record found
VerifyNationSubscription(item) ==
    /\ chk' = [fn |-> "verify_nation_subscription", arg |-> Some(item), t |-> now,
               faulted |-> FALSE,
               result |-> Some(verify_nation_subscription(item))]
    /\ UNCHANGED << proc, overlap, now, nations, users, secrets, inv, client, remaining, cyc, job >>

\* subscription_middleware.py lines 347-400, the tenant record found
VerifySubscription(item) ==
    /\ chk' = [fn |-> "verify_subscription", arg |-> Some(item), t |-> now,
               faulted |-> FALSE,
               result |-> Some(verify_subscription(item))]
    /\ UNCHANGED << proc, overlap, now, nations, users, secrets, inv, client, remaining, cyc, job >>

NextQuota ==
    \/ \E item \in QuotaNationItems : VerifyNationSubscription(item)
    \/ \E item \in QuotaTenantItems : VerifySubscription(item)

SpecQuota == InitRate /\ [][NextQuota]_vars

(***************************************************************************)
(* Concurrent requests of one nation: each caller runs                     *)
(* check_and_reset_billing_cycle_nation (get_item, then update_item) and,  *)
(* its turn having succeeded, increment_query_count_nation (one            *)
(* update_item).  The callers are different users, so the rate-limit       *)
(* marker is not shared.                                                   *)
(***************************************************************************)
CycleNation == "n1"

\* usage_tracking.py lines 219-246: get_item and the decision on its result
CycleRead(p) ==
    /\ cyc.w[p].pc = "billing_read"
    /\ \E fault \in BOOLEAN :
         cyc' = [cyc EXCEPT !.w[p] =
                   IF ~fault /\ billing_cycle_needs_reset(nations[CycleNation], now)
                   THEN [pc |-> "billing_write", current_time |-> now]
                   ELSE [pc |-> "turn", current_time |-> 0]]
    /\ UNCHANGED << proc, overlap, now, nations, users, secrets, inv, client, remaining, chk, job >>

\* usage_tracking.py lines 248-264: the unconditional update_item
CycleWrite(p) ==
    /\ cyc.w[p].pc = "billing_write"
    /\ \E fault \in BOOLEAN :
         IF fault
         THEN /\ cyc' = [cyc EXCEPT !.w[p] = [pc |-> "turn", current_time |-> 0]]
              /\ UNCHANGED nations
         ELSE /\ nations' = [nations EXCEPT ![CycleNation] =
                                reset_usage(@, cyc.w[p].current_time)]
              /\ cyc' = [cyc EXCEPT !.w[p] = [pc |-> "turn", current_time |-> 0],
                                    !.resets = @ + 1]
    /\ UNCHANGED << proc, overlap, now, users, secrets, inv, client, remaining, chk, job >>

\* the turn ends; only a successful one goes on to record its usage
CycleTurn(p) ==
    /\ cyc.w[p].pc = "turn"
    /\ \E succeeded \in BOOLEAN :
         cyc' = [cyc EXCEPT !.w[p].pc = IF succeeded THEN "track" ELSE "done"]
    /\ UNCHANGED << proc, overlap, now, nations, users, secrets, inv, client, remaining, chk, job >>

\* usage_tracking.py lines 123-159: one update_item with if_not_exists + :inc
CycleIncrement(p) ==
    /\ cyc.w[p].pc = "track"
    /\ \E fault \in BOOLEAN :
         IF fault
         THEN /\ cyc' = [cyc EXCEPT !.w[p].pc = "done"]
              /\ UNCHANGED nations
         ELSE /\ nations' = [nations EXCEPT ![CycleNation] =
                                increment_query_count_nation(@)]
              /\ cyc' = [cyc EXCEPT !.w[p].pc = "done",
                                    !.incs = @ + 1,
                                    !.incs_after = IF cyc.resets > 0 THEN @ + 1 ELSE @]
    /\ UNCHANGED << proc, overlap, now, users, secrets, inv, client, remaining, chk, job >>

NextCycle ==
    \/ \E p \in Workers : CycleRead(p)
    \/ \E p \in Workers : CycleWrite(p)
    \/ \E p \in Workers : CycleTurn(p)
    \/ \E p \in Workers : CycleIncrement(p)
    \/ Tick

CycleItems ==
    { None } \cup
    { Some([queries_used_this_period |-> used, queries_limit |-> Some(0),
            billing_period_start |-> bps, usage_reset_at |-> reset,
            subscription_status |-> Some("active")]) :
        used \in {None, Some(2)}, bps \in {None, Some(1)},
        reset \in {None, Some(0)} }

InitCycle ==
    /\ now = 0
    /\ nations \in [Nations -> CycleItems]
    /\ users = [u \in Users |-> None]
    /\ secrets = [n \in Nations |-> None]
    /\ inv = IdleInv
    /\ client = None
    /\ remaining = 1
    /\ chk = NoChk
    /\ job = NoJob
    /\ proc = NoProc
    /\ overlap = NoOverlap
    /\ cyc = [NoCyc EXCEPT !.used0 =
                 IF nations[CycleNation] = None
                    \/ Val(nations[CycleNation]).queries_used_this_period = None
                 THEN 0
                 ELSE Val(Val(nations[CycleNation]).queries_used_this_period)]

SpecCycle == InitCycle /\ [][NextCycle]_vars

(***************************************************************************)
(* Sequential calls of check_and_reset_billing_cycle_nation for one        *)
(* nation within one billing period, with usage recorded in between.       *)
(***************************************************************************)
\* usage_tracking.py lines 202-264; a ClientError returns False, nothing written
CheckAndReset(n) ==
    /\ \E fault \in BOOLEAN :
         LET r == IF fault THEN [returned |-> FALSE, item |-> nations[n]]
                  ELSE check_and_reset_billing_cycle_nation(nations[n], now)
         IN  /\ nations' = [nations EXCEPT ![n] = r.item]
             /\ chk' = [fn |-> "check_and_reset_billing_cycle_nation",
                        arg |-> Some(nations[n]), t |-> now, faulted |-> fault,
                        result |-> Some(r)]
    /\ UNCHANGED << proc, overlap, now, users, secrets, inv, client, remaining, cyc, job >>

\* usage_tracking.py lines 123-159, between two checks
RecordUsage(n) ==
    /\ Used(nations[n]) < MaxUsed
    /\ nations' = [nations EXCEPT ![n] = increment_query_count_nation(@)]
    /\ UNCHANGED << proc, overlap, now, users, secrets, inv, client, remaining, chk, cyc, job >>

NextReset ==
    \/ \E n \in Nations : CheckAndReset(n)
    \/ \E n \in Nations : RecordUsage(n)
    \/ Tick

ResetItems ==
    { None } \cup
    { Some([queries_used_this_period |-> used, queries_limit |-> Some(0),
            billing_period_start |-> bps, usage_reset_at |-> reset,
            subscription_status |-> Some("active")]) :
        used \in {None, Some(2)}, bps \in {None, Some(1), Some(3)},
        reset \in {None, Some(0), Some(2)} }

InitReset ==
    /\ now = 0
    /\ nations \in [Nations -> ResetItems]
    /\ users = [u \in Users |-> None]
    /\ secrets = [n \in Nations |-> None]
    /\ inv = IdleInv
    /\ client = None
    /\ remaining = 1
    /\ chk = NoChk
    /\ job = NoJob
    /\ proc = NoProc
    /\ overlap = NoOverlap
    /\ cyc = NoCyc

SpecReset == InitReset /\ [][NextReset]_vars

(***************************************************************************)
(* process_streaming_request for users whose record carries the flag       *)
(* nb_needs_reauth, which token_refresh sets when a refresh failed.        *)
(***************************************************************************)
ReauthUserItems ==
    { Some([last_query_at |-> None, nb_needs_reauth |-> b]) : b \in BOOLEAN }

InitReauth ==
    /\ now = 0
    /\ nations \in [Nations -> NationItems]
    /\ users \in [Users -> ReauthUserItems]
    /\ secrets = [n \in Nations |-> Some([access_token |-> "tok", nation_slug |-> "n1"])]
    /\ inv = IdleInv
    /\ client = None
    /\ remaining = 1
    /\ chk = NoChk
    /\ job = NoJob
    /\ proc = NoProc
    /\ overlap = NoOverlap
    /\ cyc = NoCyc

SpecReauth == InitReauth /\ [][Next]_vars

(***************************************************************************)
(* The tool_id of stream_agent_response applied on its own: one process    *)
(* issues a confirmation request, a process computes the tool_id of a      *)
(* tool-use block.                                                         *)
(***************************************************************************)
FingerprintCalls ==
    { [name |-> name, input |-> input] :
        name \in {"list_signups", "update_signup", "delete_signup"},
        input \in ToolInputs }

\* lines 397-406: the confirmation request of a destructive call
IssueToolId(seed, call) ==
    /\ call.name \in DESTRUCTIVE_TOOLS
    /\ client' = Some(ConfirmationData(seed, call))
    /\ UNCHANGED << proc, overlap, now, nations, users, secrets, inv, remaining, chk, cyc, job >>

\* line 397: the tool_id of a tool-use block
ComputeToolId(seed, call) ==
    /\ chk' = [fn |-> "tool_id", arg |-> Some(call), t |-> seed, faulted |-> FALSE,
               result |-> Some(ToolId(seed, call.name, call.input))]
    /\ UNCHANGED << proc, overlap, now, nations, users, secrets, inv, client, remaining, cyc, job >>

NextFingerprint ==
    \/ \E seed \in HashSeeds, call \in FingerprintCalls : IssueToolId(seed, call)
    \/ \E seed \in HashSeeds, call \in FingerprintCalls : ComputeToolId(seed, call)

InitFingerprint ==
    /\ now = 0
    /\ nations = [n \in Nations |-> None]
    /\ users = [u \in Users |-> None]
    /\ secrets = [n \in Nations |-> None]
    /\ inv = IdleInv
    /\ client = None
    /\ remaining = 1
    /\ chk = NoChk
    /\ job = NoJob
    /\ proc = NoProc
    /\ overlap = NoOverlap
    /\ cyc = NoCyc

SpecFingerprint == InitFingerprint /\ [][NextFingerprint]_vars

(***************************************************************************)
(* token_refresh/handler.py: the scheduled refresh of the NationBuilder    *)
(* tokens.  Here `users` is the Users table keyed by user_id and `secrets` *)
(* holds the secrets nat/user/{user_id}/nb-tokens.  Time is in hours.      *)
(***************************************************************************)
\* TOKEN_EXPIRY_WINDOW_HOURS, line 39
TOKEN_EXPIRY_WINDOW_HOURS == 12
\* token_response.get("expires_in", 7200): two hours
EXPIRES_IN_HOURS == 2

\* the messages of the exceptions and failures of refresh_user_token
ErrNoTokens == "No tokens found"
ErrNoRefreshToken == "No refresh token"
ErrNoSlug == "No NB slug"
ErrNoAccessToken == "No access token in response"
ErrRejected == "Token refresh failed with status 401"
ErrNetwork == "HTTP error"
ErrStore == "ClientError"

EmptyRefreshUser ==
    [nb_connected |-> FALSE, nb_needs_reauth |-> None, nb_token_expires_at |-> None]

\* the scan filter without its test of nb_needs_reauth
ScanFilterIgnoreFlag(item, window_end) ==
    /\ item /= None
    /\ Val(item).nb_connected
    /\ Val(item).nb_token_expires_at /= None
    /\ Val(Val(item).nb_token_expires_at) <= window_end

\* lines 296-301: the FilterExpression of the scan (the ISO timestamps of one
\* format and time zone compare as the instants they denote)
ScanFilter(item, window_end) ==
    /\ item /= None
    /\ Val(item).nb_connected
    /\ Val(item).nb_needs_reauth /= Some(TRUE)
    /\ Val(item).nb_token_expires_at /= None
    /\ Val(Val(item).nb_token_expires_at) <= window_end

\* lines 276-324: the user_ids of the records the scan returns
find_users_with_expiring_tokens(table, current_time) ==
    { u \in RefreshUsers : ScanFilter(table[u], current_time + TOKEN_EXPIRY_WINDOW_HOURS) }

\* the orders in which a scan can return a set of records
ScanOrders(S) ==
    { q \in [1..Cardinality(S) -> S] : \A i, j \in 1..Cardinality(S) : q[i] = q[j] => i = j }

\* the write that replaces the access token and leaves the rest of the secret
store_nb_tokens_access_only(secret, access_token, refresh_token, expires_at, nb_slug) ==
    IF secret = None
    THEN Some([access_token |-> access_token, refresh_token |-> refresh_token,
               expires_at |-> expires_at, nb_slug |-> nb_slug])
    ELSE Some([Val(secret) EXCEPT !.access_token = access_token])

\* lines 122-166: put_secret_value (create_secret when there is no secret) of
\* the whole token_data
store_nb_tokens(secret, access_token, refresh_token, expires_at, nb_slug) ==
    Some([access_token |-> access_token, refresh_token |-> refresh_token,
          expires_at |-> expires_at, nb_slug |-> nb_slug])

\* the update that leaves nb_needs_reauth as it is after a refresh
update_user_token_status_keep_flag(item, expires_at, needs_reauth) ==
    LET old == IF item = None THEN EmptyRefreshUser ELSE Val(item)
    IN  IF needs_reauth
        THEN Some([old EXCEPT !.nb_needs_reauth = Some(TRUE)])
        ELSE Some([old EXCEPT !.nb_token_expires_at = expires_at])

\* lines 221-273: update_item (an upsert) on the user record
update_user_token_status(item, expires_at, needs_reauth) ==
    LET old == IF item = None THEN EmptyRefreshUser ELSE Val(item)
    IN  IF needs_reauth
        THEN Some([old EXCEPT !.nb_needs_reauth = Some(TRUE)])
        ELSE Some([old EXCEPT !.nb_token_expires_at = expires_at,
                              !.nb_needs_reauth = Some(FALSE)])

RefreshResult(user_id, success, error) ==
    [user_id |-> user_id, success |-> success, error |-> error]

RECURSIVE Failures(_)
Failures(results) ==
    IF Len(results) = 0 THEN <<>>
    ELSE (IF Head(results).success THEN <<>> ELSE << Head(results) >>)
            \o Failures(Tail(results))

\* lines 468-489: the report of a run
RefreshReport(results) ==
    LET failed == Len(Failures(results))
    IN  [statusCode |-> 200, processed |-> Len(results),
         succeeded |-> Len(results) - failed, failed |-> failed,
         failures |-> Failures(results)]

\* lines 490-501: the response to an exception that reached the handler
RefreshErrorReport ==
    [statusCode |-> 500, processed |-> 0, succeeded |-> 0, failed |-> 0,
     failures |-> <<>>]

\* the end of refresh_user_token with `result`, the append of line 465 and
\* the next iteration of the loop, or the report after the last one
FinishUser(j, result) ==
    LET results == Append(j.results, result)
        rest == Tail(j.queue)
    IN  IF Len(rest) = 0
        THEN [j EXCEPT !.pc = "done", !.queue = rest, !.tokens = None,
                       !.response = None, !.results = results,
                       !.report = Some(RefreshReport(results))]
        ELSE [j EXCEPT !.pc = "tokens", !.queue = rest, !.tokens = None,
                       !.response = None, !.results = results]

\* an exception leaves refresh_user_token and the loop: lines 490-501
AbortRun(j) ==
    [j EXCEPT !.pc = "done", !.queue = <<>>, !.tokens = None, !.response = None,
              !.report = Some(RefreshErrorReport)]

\* update_user_token_status(user_id, needs_reauth=True) inside the try of
\* refresh_user_token, followed by the return of the failure `error`; a
\* ClientError of the update is caught by `except Exception`
FlagInsideTry(u, error) ==
    \E fault \in BOOLEAN :
        IF fault
        THEN /\ job' = FinishUser(job, RefreshResult(u, FALSE, ErrStore))
             /\ UNCHANGED users
        ELSE /\ users' = [users EXCEPT ![u] = update_user_token_status(@, None, TRUE)]
             /\ job' = FinishUser(job, RefreshResult(u, FALSE, error))

\* lines 436-460: the job starts, reads its client credentials and scans
StartRun ==
    /\ job.pc \in {"idle", "done"}
    /\ job.runs < MaxRuns
    /\ \E fault \in BOOLEAN :
         LET started == [job EXCEPT !.runs = @ + 1, !.results = <<>>,
                                    !.scanned = <<>>, !.report = None,
                                    !.exchanges = [u \in RefreshUsers |-> 0]]
         IN  IF fault
             THEN job' = AbortRun(started)
             ELSE \E found \in ScanOrders(find_users_with_expiring_tokens(users, now)) :
                    job' = IF Len(found) = 0
                           THEN [started EXCEPT !.pc = "done",
                                                !.report = Some(RefreshReport(<<>>))]
                           ELSE [started EXCEPT !.pc = "tokens", !.scanned = found,
                                                !.queue = found]
    /\ UNCHANGED << proc, overlap, now, nations, users, secrets, inv, client, remaining, chk, cyc >>

\* lines 337-362: get_user_tokens and the tests of what it returned
GetUserTokens ==
    /\ job.pc = "tokens"
    /\ LET u == Head(job.queue)
           tokens == secrets[u]
       IN  \E fault \in BOOLEAN :
             IF fault
             THEN /\ job' = FinishUser(job, RefreshResult(u, FALSE, ErrStore))
                  /\ UNCHANGED users
             ELSE IF tokens = None
             THEN /\ job' = FinishUser(job, RefreshResult(u, FALSE, ErrNoTokens))
                  /\ UNCHANGED users
             ELSE IF ~Truthy(Val(tokens).refresh_token)
             THEN FlagInsideTry(u, ErrNoRefreshToken)
             ELSE IF ~Truthy(Val(tokens).nb_slug)
             THEN FlagInsideTry(u, ErrNoSlug)
             ELSE /\ job' = [job EXCEPT !.pc = "exchange", !.tokens = tokens]
                  /\ UNCHANGED users
    /\ UNCHANGED << proc, overlap, now, nations, secrets, inv, client, remaining, chk, cyc >>

\* the token pairs the provider can answer with in run n: a new access token
\* or none, a new refresh token or none
TokenResponses(n) ==
    { [access_token |-> a, refresh_token |-> r, expires_in |-> EXPIRES_IN_HOURS] :
        a \in {"", "a" \o ToString(n)}, r \in {"", "r" \o ToString(n)} }

\* lines 364-384 and 408-423: refresh_access_token and what follows it
RefreshAccessToken ==
    /\ job.pc = "exchange"
    /\ LET u == Head(job.queue)
           called == [job EXCEPT !.exchanges[u] = @ + 1]
       IN  \/ \* status /= 200: ValueError, handled at lines 408-416; a
              \* ClientError of the update inside the handler leaves the function
              \E fault \in BOOLEAN :
                IF fault
                THEN /\ job' = AbortRun(called)
                     /\ UNCHANGED users
                ELSE /\ users' = [users EXCEPT ![u] =
                                     update_user_token_status(@, None, TRUE)]
                     /\ job' = FinishUser(called, RefreshResult(u, FALSE, ErrRejected))
           \/ \* urllib3 HTTPError: re-raised, handled at lines 417-423
              /\ job' = FinishUser(called, RefreshResult(u, FALSE, ErrNetwork))
              /\ UNCHANGED users
           \/ \* status 200
              \E response \in TokenResponses(job.runs) :
                LET answered == called
                IN  IF ~Truthy(response.access_token)
                    THEN \E fault \in BOOLEAN :
                           IF fault
                           THEN /\ job' = FinishUser(answered,
                                              RefreshResult(u, FALSE, ErrStore))
                                /\ UNCHANGED users
                           ELSE /\ users' = [users EXCEPT ![u] =
                                                update_user_token_status(@, None, TRUE)]
                                /\ job' = FinishUser(answered,
                                              RefreshResult(u, FALSE, ErrNoAccessToken))
                    ELSE /\ job' = [answered EXCEPT !.pc = "store",
                                                    !.response = Some(response)]
                         /\ UNCHANGED users
    /\ UNCHANGED << proc, overlap, now, nations, secrets, inv, client, remaining, chk, cyc >>

\* lines 386-393: store_nb_tokens
StoreNbTokens ==
    /\ job.pc = "store"
    /\ LET u == Head(job.queue)
           old == Val(job.tokens)
           response == Val(job.response)
           refresh_token == IF Truthy(response.refresh_token)
                            THEN response.refresh_token ELSE old.refresh_token
       IN  \E fault \in BOOLEAN :
             IF fault
             THEN /\ job' = FinishUser(job, RefreshResult(u, FALSE, ErrStore))
                  /\ UNCHANGED secrets
             ELSE /\ secrets' = [secrets EXCEPT ![u] =
                                    store_nb_tokens(@, response.access_token,
                                                    refresh_token,
                                                    now + response.expires_in,
                                                    old.nb_slug)]
                  /\ job' = [job EXCEPT !.pc = "status"]
    /\ UNCHANGED << proc, overlap, now, nations, users, inv, client, remaining, chk, cyc >>

\* lines 395-406: update_user_token_status and the successful return
UpdateUserTokenStatus ==
    /\ job.pc = "status"
    /\ LET u == Head(job.queue)
           response == Val(job.response)
       IN  \E fault \in BOOLEAN :
             IF fault
             THEN /\ job' = FinishUser(job, RefreshResult(u, FALSE, ErrStore))
                  /\ UNCHANGED users
             ELSE /\ users' = [users EXCEPT ![u] =
                                  update_user_token_status(@,
                                      Some(now + response.expires_in), FALSE)]
                  /\ job' = FinishUser(job, RefreshResult(u, TRUE, ""))
    /\ UNCHANGED << proc, overlap, now, nations, secrets, inv, client, remaining, chk, cyc >>

\* nb_oauth_callback: between two runs a flagged user authorizes again; the
\* callback stores a new token pair and clears the flag
Reauthorize(u) ==
    /\ job.pc \in {"idle", "done"}
    /\ users[u] /= None
    /\ Val(users[u]).nb_needs_reauth = Some(TRUE)
    /\ LET access_token == "b" \o ToString(job.runs)
           refresh_token == "s" \o ToString(job.runs)
       IN  /\ secrets' = [secrets EXCEPT ![u] =
                             store_nb_tokens(@, access_token, refresh_token,
                                             now + EXPIRES_IN_HOURS, "n1")]
           /\ users' = [users EXCEPT ![u] =
                           Some([Val(@) EXCEPT !.nb_connected = TRUE,
                                               !.nb_token_expires_at =
                                                   Some(now + EXPIRES_IN_HOURS),
                                               !.nb_needs_reauth = Some(FALSE)])]
    /\ UNCHANGED << proc, overlap, now, nations, inv, client, remaining, chk, cyc, job >>

\* a consumer of the credential reads the secret while the job refreshes it
ReadCredential(u) ==
    /\ job.pc \in {"exchange", "store", "status"}
    /\ u = Head(job.queue)
    /\ chk' = [fn |-> "get_user_tokens", arg |-> Some(u), t |-> now,
               faulted |-> FALSE, result |-> Some(secrets[u])]
    /\ UNCHANGED << proc, overlap, now, nations, users, secrets, inv, client, remaining, cyc, job >>

NextRefresh ==
    \/ StartRun
    \/ GetUserTokens
    \/ RefreshAccessToken
    \/ StoreNbTokens
    \/ UpdateUserTokenStatus
    \/ \E u \in RefreshUsers : Reauthorize(u)
    \/ \E u \in RefreshUsers : ReadCredential(u)

\* a connected user whose token expires within the window, and its secret
ValidUser ==
    Some([nb_connected |-> TRUE, nb_needs_reauth |-> None,
          nb_token_expires_at |-> Some(1)])
ValidSecret ==
    Some([access_token |-> "a0", refresh_token |-> "r0", expires_at |-> 1,
          nb_slug |-> "n1"])

RefreshUserItems ==
    { Some([nb_connected |-> TRUE, nb_needs_reauth |-> flag,
            nb_token_expires_at |-> Some(expires)]) :
        flag \in {None, Some(TRUE)}, expires \in {1} }
    \cup { Some([nb_connected |-> TRUE, nb_needs_reauth |-> None,
                 nb_token_expires_at |-> Some(20)]) }

RefreshSecretItems ==
    { None } \cup
    { Some([access_token |-> "a0", refresh_token |-> r, expires_at |-> 1,
            nb_slug |-> slug]) :
        r \in {"", "r0"}, slug \in {"", "n1"} }

InitRefresh ==
    /\ now = 0
    /\ nations = [n \in Nations |-> None]
    /\ users \in [RefreshUsers -> RefreshUserItems]
    /\ secrets \in { t \in [RefreshUsers -> RefreshSecretItems] : t["u2"] = ValidSecret }
    /\ inv = IdleInv
    /\ client = None
    /\ remaining = 1
    /\ chk = NoChk
    /\ cyc = NoCyc
    /\ job = NoJob
    /\ proc = NoProc
    /\ overlap = NoOverlap

SpecRefresh == InitRefresh /\ [][NextRefresh]_vars

(***************************************************************************)
(* The prompt of stream_agent_response applied on its own.  A dict is a    *)
(* function on its keys; the request's context, when given, is Some(dict). *)
(***************************************************************************)
MaxStack == 6
RECENT_ACTIONS == 5

\* dict.get(key, default)
DictGet(d, key, default) == IF key \in DOMAIN d THEN d[key] ELSE default

\* str.lower()
RECURSIVE lower(_)
lower(s) ==
    LET upper_case == "ABCDEFGHIJKLMNOPQRSTUVWXYZ"
        lower_case == "abcdefghijklmnopqrstuvwxyz"
        c == SubSeq(s, 1, 1)
        at == { i \in 1..26 : SubSeq(upper_case, i, i) = c }
    IN  IF s = "" THEN ""
        ELSE (IF at = {} THEN c
              ELSE LET i == CHOOSE i \in at : TRUE IN SubSeq(lower_case, i, i))
             \o lower(SubSeq(s, 2, Len(s)))

\* sep.join(parts)
RECURSIVE Join(_, _)
Join(sep, parts) ==
    IF Len(parts) = 0 THEN ""
    ELSE IF Len(parts) = 1 THEN Head(parts)
    ELSE Head(parts) \o sep \o Join(sep, Tail(parts))

\* an instruction that names the wrong tool for a removal from a list
get_undo_instruction_swapped(undo_type, undo_data, original_tool_name) ==
    IF undo_type \in {"remove_from_list", "add_to_list"}
          /\ Truthy(DictGet(undo_data, "person_id", ""))
          /\ Truthy(DictGet(undo_data, "list_id", ""))
    THEN "call " \o (IF undo_type = "add_to_list" THEN "remove_from_list"
                     ELSE "add_to_list")
         \o " with person_id=" \o undo_data["person_id"]
         \o ", list_id=" \o undo_data["list_id"]
    ELSE "This action cannot be undone"
\* lines 239-289
get_undo_instruction(undo_type, undo_data, original_tool_name) ==
    LET has(key) == Truthy(DictGet(undo_data, key, ""))
        created(tool, key) == original_tool_name = tool /\ has(key)
    IN  IF undo_type = "delete_created" /\ created("create_signup", "signup_id")
        THEN "call delete_signup with id=" \o undo_data["signup_id"]
        ELSE IF undo_type = "delete_created"
                  /\ created("create_contact", "contact_id")
        THEN "call delete_contact with id=" \o undo_data["contact_id"]
        ELSE IF undo_type = "delete_created"
                  /\ created("create_donation", "donation_id")
        THEN "call delete_donation with id=" \o undo_data["donation_id"]
        ELSE IF undo_type = "delete_created"
                  /\ created("create_event_rsvp", "rsvp_id")
        THEN "call delete_event_rsvp with id=" \o undo_data["rsvp_id"]
        ELSE IF undo_type = "remove_from_list" /\ has("person_id") /\ has("list_id")
        THEN "call remove_from_list with person_id=" \o undo_data["person_id"]
             \o ", list_id=" \o undo_data["list_id"]
        ELSE IF undo_type = "add_to_list" /\ has("person_id") /\ has("list_id")
        THEN "call add_to_list with person_id=" \o undo_data["person_id"]
             \o ", list_id=" \o undo_data["list_id"]
        ELSE IF undo_type = "remove_tag" /\ has("signup_id") /\ has("tagging_id")
        THEN "call remove_signup_tagging with signup_id=" \o undo_data["signup_id"]
             \o ", id=" \o undo_data["tagging_id"]
        ELSE IF undo_type = "add_tag" /\ has("signup_id") /\ has("tag_name")
        THEN "call add_signup_tagging with signup_id=" \o undo_data["signup_id"]
             \o ", tag_name=" \o undo_data["tag_name"]
        ELSE "This action cannot be undone"

\* lines 332-346: the page-context section, when a hint is truthy
context_section(context) ==
    LET d == IF context = None THEN <<>> ELSE Val(context)
        part(key, label) ==
            IF Truthy(DictGet(d, key, "")) THEN << label \o d[key] >> ELSE <<>>
        context_parts ==
            part("page_type", "Page type: ")
            \o part("person_name", "Viewing person: ")
            \o part("person_id", "Person ID: ")
            \o part("list_name", "Viewing list: ")
            \o part("event_name", "Viewing event: ")
    IN  IF Len(context_parts) > 0
        THEN << "[Context: " \o Join(", ", context_parts) \o "]" >>
        ELSE <<>>

\* the whole undo stack taken as the recent actions
recent_actions_all(undo_stack) == undo_stack
\* line 356: undo_stack[-5:]
recent_actions(undo_stack) ==
    SubSeq(undo_stack,
           IF Len(undo_stack) > RECENT_ACTIONS
           THEN Len(undo_stack) - RECENT_ACTIONS + 1 ELSE 1,
           Len(undo_stack))

\* lines 350-352
undo_phrases == << "undo", "revert", "reverse", "take back", "cancel that", "nevermind" >>
\* the undo phrases matched against the query as written
is_undo_request_exact(query) ==
    \E k \in 1..Len(undo_phrases) : Contains(undo_phrases[k], query)
is_undo_request(query) ==
    \E k \in 1..Len(undo_phrases) : Contains(undo_phrases[k], lower(query))

\* lines 360-370: the line of the action at position i (from 0) of the
\* reversed recent actions
undo_line(i, action) ==
    "  " \o ToString(i + 1) \o ". "
    \o DictGet(action, "description", "Unknown action") \o " - To undo: "
    \o get_undo_instruction(DictGet(action, "undoType", "not_undoable"),
                            DictGet(action, "undoData", <<>>),
                            DictGet(action, "toolName", "unknown"))

\* lines 354-373: the undo context block, when the query asks to undo
undo_section(query, undo_stack) ==
    IF is_undo_request(query) /\ Len(undo_stack) > 0
    THEN LET recent == recent_actions(undo_stack)
             n == Len(recent)
         IN  << Join("\n",
                     << "[Recent Actions (can be undone):" >>
                     \o [i \in 1..n |-> undo_line(i - 1, recent[n + 1 - i])]
                     \o << "]" >>) >>
    ELSE <<>>

\* lines 329-376
full_prompt(query, context, undo_stack) ==
    LET context_sections == context_section(context) \o undo_section(query, undo_stack)
    IN  IF Len(context_sections) > 0
        THEN Join("\n\n", context_sections) \o "\n\n" \o query
        ELSE query

\* undo stacks of at most n entries, oldest first
RECURSIVE UndoStacks(_)
UndoStacks(n) ==
    LET UndoActions ==
            { [description |-> "Added Ann", toolName |-> "create_signup",
               undoType |-> "delete_created", undoData |-> [signup_id |-> "12345"]],
              [toolName |-> "update_signup"] }
    IN  IF n = 0 THEN { <<>> }
        ELSE UndoStacks(n - 1)
             \cup { Append(s, a) : s \in { t \in UndoStacks(n - 1) : Len(t) = n - 1 },
                                   a \in UndoActions }

\* lines 329-376 applied to one request
BuildPrompt(query, context, undo_stack) ==
    /\ chk = NoChk
    /\ chk' = [fn |-> "full_prompt",
               arg |-> Some([query |-> query, context |-> context,
                             undo_stack |-> undo_stack]),
               t |-> 0, faulted |-> FALSE,
               result |-> Some(full_prompt(query, context, undo_stack))]
    /\ UNCHANGED << proc, overlap, now, nations, users, secrets, inv, client, remaining, cyc, job >>

\* lines 239-289 applied to one action
GetUndoInstruction(undo_type, undo_data, original_tool_name) ==
    /\ chk = NoChk
    /\ chk' = [fn |-> "get_undo_instruction",
               arg |-> Some([undo_type |-> undo_type, undo_data |-> undo_data,
                             original_tool_name |-> original_tool_name]),
               t |-> 0, faulted |-> FALSE,
               result |-> Some(get_undo_instruction(undo_type, undo_data,
                                                    original_tool_name))]
    /\ UNCHANGED << proc, overlap, now, nations, users, secrets, inv, client, remaining, cyc, job >>

NextPrompt ==
    LET PromptQueries ==
            { "list donors", "undo that", "Please UNDO", "Revert it", "un do",
              "Nevermind, Take Back" }
        PromptContexts ==
            { None, Some(<<>>), Some([page_type |-> ""]), Some([other |-> "x"]),
              Some([page_type |-> "person", person_name |-> "Ann", person_id |-> "7"]),
              Some([list_name |-> "Donors", event_name |-> "Gala"]) }
        UndoTypes ==
            { "delete_created", "remove_from_list", "add_to_list", "remove_tag",
              "add_tag", "not_undoable", "update" }
        UndoDatas ==
            { <<>>, [signup_id |-> "12345"], [contact_id |-> "67890"],
              [donation_id |-> "don123"], [rsvp_id |-> "rsvp456"],
              [person_id |-> "p1", list_id |-> "l4"], [person_id |-> "p1"],
              [signup_id |-> "s1", tagging_id |-> "t4"],
              [signup_id |-> "s1", tag_name |-> "vip"],
              [signup_id |-> "", tagging_id |-> "t4"] }
        UndoTools ==
            { "create_signup", "create_contact", "create_donation",
              "create_event_rsvp", "add_to_list", "update_signup" }
    IN  \/ \E query \in PromptQueries, context \in PromptContexts,
              undo_stack \in UndoStacks(MaxStack) :
                BuildPrompt(query, context, undo_stack)
        \/ \E undo_type \in UndoTypes, undo_data \in UndoDatas,
              original_tool_name \in UndoTools :
                GetUndoInstruction(undo_type, undo_data, original_tool_name)

SpecPrompt == InitFingerprint /\ [][NextPrompt]_vars

(***************************************************************************)
(* Two turns in one interpreter process.  create_nat_options is one        *)
(* synchronous call; the tools run while the turn awaits the messages of   *)
(* the agent, where the other turn may run.                                *)
(***************************************************************************)
\* the access token get_nb_tokens_by_nation resolves for an organization
TokenOf(nb_slug) == "tok-" \o nb_slug

\* nat/client.py, lines 352-356
init_client(slug, token) == Some([slug |-> slug, token |-> token])

\* handler line 378, agent.py lines 152-189: the options of the turn of t
CreateNatOptions(t) ==
    /\ proc.turns[t].pc = "idle"
    /\ proc' = [proc EXCEPT !.client = init_client(t, TokenOf(t)),
                            !.turns[t].pc = "streaming",
                            !.turns[t].nb_token = TokenOf(t)]
    /\ UNCHANGED << now, nations, users, secrets, inv, client, remaining, chk,
                    cyc, job, overlap >>

\* nat/tools.py: a tool of the turn of t runs with get_client()
ToolCall(t) ==
    /\ proc.turns[t].pc = "streaming"
    /\ Len(proc.turns[t].calls) < MaxBlocks
    /\ proc' = [proc EXCEPT !.turns[t].calls = Append(@, Val(proc.client))]
    /\ UNCHANGED << now, nations, users, secrets, inv, client, remaining, chk,
                    cyc, job, overlap >>

\* handler lines 386-429: the agent's response ends
TurnEnd(t) ==
    /\ proc.turns[t].pc = "streaming"
    /\ proc' = [proc EXCEPT !.turns[t].pc = "done"]
    /\ UNCHANGED << now, nations, users, secrets, inv, client, remaining, chk,
                    cyc, job, overlap >>

NextTenant == \E t \in Turns : CreateNatOptions(t) \/ ToolCall(t) \/ TurnEnd(t)

SpecTenant == InitFingerprint /\ [][NextTenant]_vars

(***************************************************************************)
(* Two runs of the token refresh job that overlap on the credential of u1. *)
(* The provider's refresh tokens are single-use: an exchange that succeeds *)
(* consumes the refresh token it was given and issues a new pair; a        *)
(* consumed refresh token is rejected.                                     *)
(***************************************************************************)
\* the end of refresh_user_token in run r
RunResult(r, success, error) ==
    [overlap EXCEPT !.run[r].pc = "done",
                    !.run[r].result = Some(RefreshResult("u1", success, error))]

\* lines 276-324, 457: the scan of run r returns u1 or nothing
RunScan(r) ==
    /\ overlap.run[r].pc = "idle"
    /\ overlap' =
         [overlap EXCEPT !.run[r].pc =
            IF "u1" \in find_users_with_expiring_tokens(users, now)
            THEN "get" ELSE "done"]
    /\ UNCHANGED << now, nations, users, secrets, inv, client, remaining, chk,
                    cyc, job, proc >>

\* lines 337-365: get_user_tokens and the tests of the stored tokens
RunGetUserTokens(r) ==
    /\ overlap.run[r].pc = "get"
    /\ LET tokens == secrets["u1"]
       IN  IF tokens = None
           THEN /\ overlap' = RunResult(r, FALSE, ErrNoTokens)
                /\ UNCHANGED users
           ELSE IF ~Truthy(Val(tokens).refresh_token) \/ ~Truthy(Val(tokens).nb_slug)
           THEN /\ users' = [users EXCEPT
                               !["u1"] = update_user_token_status(@, None, TRUE)]
                /\ overlap' = RunResult(r, FALSE,
                                 IF ~Truthy(Val(tokens).refresh_token)
                                 THEN ErrNoRefreshToken ELSE ErrNoSlug)
           ELSE /\ overlap' = [overlap EXCEPT !.run[r].pc = "exchange",
                                              !.run[r].tokens = tokens]
                /\ UNCHANGED users
    /\ UNCHANGED << now, nations, secrets, inv, client, remaining, chk, cyc, job, proc >>

\* lines 367-372, 408-423: refresh_access_token with the refresh token run r
\* read.  A consumed refresh token is rejected (ValueError: the user is
\* flagged, unless that write fails and the exception leaves the run); a
\* refresh token not yet consumed is exchanged for a new pair, or the call
\* fails on the network before it reaches the provider.
RunRefreshAccessToken(r) ==
    /\ overlap.run[r].pc = "exchange"
    /\ LET refresh_token == Val(overlap.run[r].tokens).refresh_token
           issued == overlap.issued + 1
       IN  IF refresh_token \in overlap.consumed
           THEN \/ /\ users' = [users EXCEPT
                                  !["u1"] = update_user_token_status(@, None, TRUE)]
                   /\ overlap' = RunResult(r, FALSE, ErrRejected)
                \/ /\ overlap' = [overlap EXCEPT !.run[r].pc = "aborted"]
                   /\ UNCHANGED users
           ELSE \/ /\ overlap' =
                        [overlap EXCEPT
                           !.run[r].pc = "store",
                           !.run[r].response =
                              Some([access_token |-> "a" \o ToString(issued),
                                    refresh_token |-> "r" \o ToString(issued)]),
                           !.consumed = @ \cup { refresh_token },
                           !.issued = issued]
                   /\ UNCHANGED users
                \/ /\ overlap' = RunResult(r, FALSE, ErrNetwork)
                   /\ UNCHANGED users
    /\ UNCHANGED << now, nations, secrets, inv, client, remaining, chk, cyc, job, proc >>

\* lines 386-393, 417-423: store_nb_tokens, or its ClientError
RunStoreNbTokens(r) ==
    /\ overlap.run[r].pc = "store"
    /\ LET response == Val(overlap.run[r].response)
           tokens == Val(overlap.run[r].tokens)
       IN  \/ /\ secrets' =
                   [secrets EXCEPT !["u1"] =
                      store_nb_tokens(@, response.access_token,
                                      IF Truthy(response.refresh_token)
                                      THEN response.refresh_token
                                      ELSE tokens.refresh_token,
                                      now + EXPIRES_IN_HOURS, tokens.nb_slug)]
              /\ overlap' = [overlap EXCEPT !.run[r].pc = "status"]
           \/ /\ overlap' = RunResult(r, FALSE, ErrStore)
              /\ UNCHANGED secrets
    /\ UNCHANGED << now, nations, users, inv, client, remaining, chk, cyc, job, proc >>

\* lines 395-406, 417-423: update_user_token_status, or its ClientError
RunUpdateUserTokenStatus(r) ==
    /\ overlap.run[r].pc = "status"
    /\ \/ /\ users' = [users EXCEPT !["u1"] =
                         update_user_token_status(@, Some(now + EXPIRES_IN_HOURS), FALSE)]
          /\ overlap' = RunResult(r, TRUE, "")
       \/ /\ overlap' = RunResult(r, FALSE, ErrStore)
          /\ UNCHANGED users
    /\ UNCHANGED << now, nations, secrets, inv, client, remaining, chk, cyc, job, proc >>

NextOverlap ==
    \E r \in Runs :
        \/ RunScan(r)
        \/ RunGetUserTokens(r)
        \/ RunRefreshAccessToken(r)
        \/ RunStoreNbTokens(r)
        \/ RunUpdateUserTokenStatus(r)

InitOverlap ==
    /\ now = 0
    /\ nations = [n \in Nations |-> None]
    /\ users = [u \in RefreshUsers |-> IF u = "u1" THEN ValidUser ELSE None]
    /\ secrets = [u \in RefreshUsers |-> IF u = "u1" THEN ValidSecret ELSE None]
    /\ inv = IdleInv
    /\ client = None
    /\ remaining = 1
    /\ chk = NoChk
    /\ cyc = NoCyc
    /\ job = NoJob
    /\ proc = NoProc
    /\ overlap = NoOverlap

SpecOverlap == InitOverlap /\ [][NextOverlap]_vars

(***************************************************************************)
(* The token refresh job next to the credential resolvers of the request   *)
(* paths.  Secrets Manager holds nat/user/{user_id}/nb-tokens under the    *)
(* key user_id and nat/nation/{nation_slug}/nb-tokens under the key        *)
(* nation_slug.                                                            *)
(***************************************************************************)
\* nat_agent_streaming/handler.py, lines 88-128: the secret of the nation
get_nb_tokens_by_nation(store, nation_slug) ==
    LET secret == store[nation_slug]
    IN  IF secret = None \/ ~Truthy(Val(secret).access_token) THEN None
        ELSE Some([access_token |-> Val(secret).access_token,
                   nb_slug |-> IF Truthy(Val(secret).nation_slug)
                               THEN Val(secret).nation_slug ELSE nation_slug])

\* nat_agent/handler.py, lines 90-126: the secret of the user
get_nb_tokens(store, user_id) ==
    LET secret == store[user_id]
    IN  IF secret = None \/ ~Truthy(Val(secret).access_token)
           \/ ~Truthy(Val(secret).nb_slug)
        THEN None
        ELSE Some([access_token |-> Val(secret).access_token,
                   nb_slug |-> Val(secret).nb_slug])

\* nat_agent_streaming/handler.py, lines 505-523: a request of the nation,
\* admitted between two runs of the job, resolves the credential of its turn
ResolveByNation(nation_slug) ==
    /\ job.pc \in {"idle", "done"}
    /\ \E fault \in BOOLEAN :
         chk' = [fn |-> "get_nb_tokens_by_nation", arg |-> Some(nation_slug),
                 t |-> job.runs, faulted |-> fault,
                 result |-> IF fault THEN None
                            ELSE get_nb_tokens_by_nation(secrets, nation_slug)]
    /\ UNCHANGED << now, nations, users, secrets, inv, client, remaining, cyc, job,
                    proc, overlap >>

\* nat_agent/handler.py, lines 374-398: a request of the user, admitted
\* between two runs of the job, resolves the credential of its turn
ResolveByUser(user_id) ==
    /\ job.pc \in {"idle", "done"}
    /\ \E fault \in BOOLEAN :
         chk' = [fn |-> "get_nb_tokens", arg |-> Some(user_id),
                 t |-> job.runs, faulted |-> fault,
                 result |-> IF fault THEN None ELSE get_nb_tokens(secrets, user_id)]
    /\ UNCHANGED << now, nations, users, secrets, inv, client, remaining, cyc, job,
                    proc, overlap >>

NextPaths ==
    \/ StartRun
    \/ GetUserTokens
    \/ RefreshAccessToken
    \/ StoreNbTokens
    \/ UpdateUserTokenStatus
    \/ \E n \in Nations : ResolveByNation(n)
    \/ \E u \in RefreshUsers : ResolveByUser(u)

\* the users u1 and u2 of the nation n1, connected with the same token pair
InitPaths ==
    /\ now = 0
    /\ nations = [n \in Nations |-> None]
    /\ users = [u \in RefreshUsers |-> ValidUser]
    /\ secrets = [k \in RefreshUsers \cup Nations |->
                    IF k \in RefreshUsers THEN ValidSecret
                    ELSE Some([access_token |-> "a0", nation_slug |-> k])]
    /\ inv = IdleInv
    /\ client = None
    /\ remaining = 1
    /\ chk = NoChk
    /\ cyc = NoCyc
    /\ job = NoJob
    /\ proc = NoProc
    /\ overlap = NoOverlap

SpecPaths == InitPaths /\ [][NextPaths]_vars

(***************************************************************************)
(* Properties of the streaming pipeline.                                   *)
(***************************************************************************)
EventCode(e) == PyStr(JGet(e.data, "error_code", JS("")))
EventIndices == 1..Len(inv.events)
HasEvent(type) == \E k \in EventIndices : inv.events[k].type = type
LastEvent == inv.events[Len(inv.events)]
LastEventIs(type) == Len(inv.events) > 0 /\ LastEvent.type = type
Finished == inv.pc \in {"returned", "raised"}
AgentErrored == \E k \in EventIndices : EventCode(inv.events[k]) = "AGENT_ERROR"
RateLimited == \E k \in EventIndices : EventCode(inv.events[k]) = "RATE_LIMIT_EXCEEDED"
NoUsageRecorded == inv.increments = 0 /\ inv.marks = 0
SuccessfulDone ==
    LastEventIs(SSE_EVENT_DONE) /\ ~JHas(LastEvent.data, "error")
OverQuota(item) ==
    /\ item /= None
    /\ Val(item).queries_limit /= None
    /\ Val(Val(item).queries_limit) > 0
    /\ Val(item).queries_used_this_period /= None
    /\ Val(Val(item).queries_used_this_period) >= Val(Val(item).queries_limit)
Canon(input) == JsonDumps(input, TRUE)

\* C1: a turn whose agent call failed (ERRORED) records no usage: the counter
\* is not incremented and last_query_at is not updated, whatever was emitted
\* before the failure.
C1_ErroredRecordsNoUsage == AgentErrored => NoUsageRecorded

IsConfirmedCall(info) ==
    LET name == PyStr(JGet(info, "name", JS("")))
        input == JGet(info, "input", JO(<<>>))
    IN  name \in DESTRUCTIVE_TOOLS
        => /\ ToolId(inv.seed, name, input) \in inv.confirmed
           /\ inv.resubmitted /= None
              => /\ name = PyStr(JGet(Val(inv.resubmitted), "tool_name", JS("")))
                 /\ Canon(input) = Canon(JGet(Val(inv.resubmitted), "tool_input", JO(<<>>)))

C3_DestructiveOnlyIfConfirmed ==
    \A k \in EventIndices :
        /\ inv.events[k].type = SSE_EVENT_TOOL_USE => IsConfirmedCall(inv.events[k].data)
        /\ inv.events[k].type = SSE_EVENT_DONE =>
              LET calls == JGet(inv.events[k].data, "tool_calls", JA(<<>>)).items
              IN  \A c \in 1..Len(calls) : IsConfirmedCall(calls[c])

C3_Witness ==
    /\ LastEventIs(SSE_EVENT_DONE)
    /\ \E k \in EventIndices :
          /\ inv.events[k].type = SSE_EVENT_TOOL_USE
          /\ PyStr(JGet(inv.events[k].data, "name", JS(""))) \in DESTRUCTIVE_TOOLS
    /\ Len(JGet(LastEvent.data, "tool_calls", JA(<<>>)).items) > 0

\* C4: once a turn paused with a confirmation request carrying tool_id F and
\* the caller re-submitted with F in confirmed_tools, a call of the same tool
\* with the same input up to key order raises no confirmation request.
C4_ResubmissionPasses ==
    inv.resubmitted /= None =>
        ~\E k \in EventIndices :
            /\ inv.events[k].type = SSE_EVENT_CONFIRMATION_REQUIRED
            /\ JGet(inv.events[k].data, "tool_name", JS(""))
                 = JGet(Val(inv.resubmitted), "tool_name", JS(""))
            /\ Canon(JGet(inv.events[k].data, "tool_input", JO(<<>>)))
                 = Canon(JGet(Val(inv.resubmitted), "tool_input", JO(<<>>)))

\* C5: a turn that ends paused for confirmation records no usage.
C5_PausedRecordsNoUsage ==
    LastEventIs(SSE_EVENT_CONFIRMATION_REQUIRED) => NoUsageRecorded

\* C6: an invocation whose turn completed successfully (a done event without
\* an error), the writes of its usage tracking answering, has incremented the counter exactly once
\* and set last_query_at once.
C6_SuccessRecordsUsageOnce ==
    (Finished /\ SuccessfulDone /\ ~inv.faulted)
        => inv.increments = 1 /\ inv.marks = 1

\* C7: no agent turn is started for an organization that has used up a
\* positive quota.
C7_QuotaBeforeAgent ==
    (inv.agent_started /\ inv.increments = 0)
        => ~OverQuota(nations[inv.nation_slug])

\* The record of the last quota check, in either tenancy model.
QuotaChecked == chk.fn \in { "verify_nation_subscription", "verify_subscription" }
CheckedUsed ==
    IF chk.fn = "verify_subscription" THEN Val(chk.arg).queries_this_month
    ELSE Val(chk.arg).queries_used_this_period
CheckedLimit == Val(chk.arg).queries_limit
CheckedActive ==
    IF chk.fn = "verify_subscription"
    THEN Val(chk.arg).stripe_subscription_status \in { Some("active"), Some("trialing") }
    ELSE Val(chk.arg).subscription_status \in { Some("active"), Some("trialing") }
QuotaBoundaries ==
    /\ CheckedLimit = Some(0) => Val(chk.result) /= "QUERY_LIMIT_EXCEEDED"
    /\ ( /\ CheckedActive
         /\ CheckedLimit /= None /\ Val(CheckedLimit) > 0
         /\ CheckedUsed = CheckedLimit )
       => Val(chk.result) = "QUERY_LIMIT_EXCEEDED"
    /\ ( /\ CheckedActive
         /\ CheckedLimit /= None /\ Val(CheckedLimit) > 0
         /\ CheckedUsed = Some(Val(CheckedLimit) - 1) )
       => Val(chk.result) = "valid"

\* C8: every quota check, in the nation model and in the tenant model, never
\* rejects a limit of 0 on quota, rejects used = limit > 0 with
\* QUERY_LIMIT_EXCEEDED, and allows used = limit - 1.
C8_QuotaBoundaries == QuotaChecked => QuotaBoundaries

\* The nation model on its own meets the three boundaries.
NationQuotaBoundaries == chk.fn = "verify_nation_subscription" => QuotaBoundaries

\* C9: check_rate_limit, its lookup answering, on a stored last_query_at
\* raises with retry_after = 5 - elapsed when elapsed = now - last_query_at
\* is below 5 and allows when elapsed is 5 or more; with no record or no
\* last_query_at it allows.
C9_RateLimitBoundaries ==
    (chk.fn = "check_rate_limit" /\ ~chk.faulted) =>
        LET item == Val(chk.arg)
            r == Val(chk.result)
        IN  IF item = None \/ Val(item).last_query_at = None
            THEN ~r.raised
            ELSE LET elapsed == chk.t - Val(Val(item).last_query_at)
                 IN  /\ elapsed < 5 => r.raised /\ r.retry_after = 5 - elapsed
                     /\ elapsed >= 5 => ~r.raised

C9_Witness ==
    /\ chk.fn = "check_rate_limit"
    /\ ~chk.faulted
    /\ Val(chk.arg) /= None
    /\ Val(Val(chk.arg)).last_query_at = Some(chk.t - 3)
    /\ Val(chk.result) = [raised |-> TRUE, retry_after |-> 2]

\* C10 as stated: a request rejected by the rate limit leaves the counter
\* and last_query_at as they were.
C10_RateLimitedStoreUnchanged ==
    RateLimited =>
        /\ Used(nations[inv.nation_slug]) = Used(inv.pre_nations[inv.nation_slug])
        /\ users = inv.pre_users

\* C10 as amended: a request rejected by the rate limit produces exactly one
\* event, an error with code RATE_LIMIT_EXCEEDED and a retry_after, starts no
\* agent turn, leaves last_query_at unchanged and never increments the
\* counter; the nation item changes only when the billing-cycle check that
\* precedes the rate limit found the rollover due, and then by that reset.
C10_RateLimitedFrame ==
    RateLimited =>
        /\ inv.pc = "returned"
        /\ Len(inv.events) = 1
        /\ inv.events[1].type = SSE_EVENT_ERROR
        /\ JGet(inv.events[1].data, "retry_after", JS(""))
             \in { JInt(k) : k \in 1..(RATE_LIMIT_COOLDOWN_SECONDS + MaxTime) }
        /\ ~inv.agent_started
        /\ NoUsageRecorded
        /\ users = inv.pre_users
        /\ \/ nations = inv.pre_nations
           \/ /\ billing_cycle_needs_reset(inv.pre_nations[inv.nation_slug],
                                           inv.current_time)
              /\ nations = [inv.pre_nations EXCEPT ![inv.nation_slug] =
                               reset_usage(@, inv.current_time)]

C10_Witness ==
    /\ RateLimited
    /\ inv.resets = 1
    /\ inv.events[1].data = RateLimitData(2)

\* C11: within one billing cycle, once a reset has been written and a
\* successful turn has then incremented the counter, no caller's billing
\* cycle check writes the counter back to 0.
C11_ResetCollapses ==
    [][ ~( /\ cyc.resets >= 1
           /\ cyc.incs_after >= 1
           /\ cyc'.resets > cyc.resets ) ]_vars

\* C12: as long as no rollover reset was written, the counter is the
\* counter at the start (0 when the attribute did not exist) plus the number
\* of successful turns that recorded their usage, under every interleaving.
C12_NoLostUpdates ==
    cyc.resets = 0 => Used(nations[CycleNation]) = cyc.used0 + cyc.incs

C12_Witness ==
    /\ cyc.resets = 0
    /\ cyc.incs = MaxWorkers
    /\ cyc.used0 = 0
    /\ Used(nations[CycleNation]) = MaxWorkers

\* The record of the last billing-cycle check.
IsResetCheck(c) == c.fn = "check_and_reset_billing_cycle_nation"
CheckedStart(c) == Val(Val(c.arg)).billing_period_start
CheckedReset(c) == Val(Val(c.arg)).usage_reset_at
\* the check was made in the cycle: the store answered, the period had begun
InCycle(c) ==
    /\ ~c.faulted
    /\ c.arg /= Some(None)
    /\ CheckedStart(c) /= None
    /\ c.t >= Val(CheckedStart(c))

C15_TerminalEventLast ==
    (Finished /\ inv.nb_token /= "") =>
        \/ LastEventIs(SSE_EVENT_DONE)
        \/ LastEventIs(SSE_EVENT_CONFIRMATION_REQUIRED)

\* C16: an error event with error_code AGENT_ERROR is the only one of the
\* turn, no done event precedes it, and the event right after it is the last
\* event of the turn: a done event with an empty response, empty tool_calls
\* and the message of the error event as its error.
C16_ErroredSequence ==
    \A k \in EventIndices :
        EventCode(inv.events[k]) = "AGENT_ERROR" =>
            /\ inv.events[k].type = SSE_EVENT_ERROR
            /\ \A j \in EventIndices :
                  EventCode(inv.events[j]) = "AGENT_ERROR" => j = k
            /\ \A j \in 1..(k - 1) :
                  inv.events[j].type \notin {SSE_EVENT_ERROR, SSE_EVENT_DONE}
            /\ Len(inv.events) = k + 1
            /\ inv.events[k + 1].type = SSE_EVENT_DONE
            /\ JGet(inv.events[k + 1].data, "response", JS("?")) = JS("")
            /\ JGet(inv.events[k + 1].data, "tool_calls", JS("?")) = JA(<<>>)
            /\ JHas(inv.events[k + 1].data, "error")
            /\ JGet(inv.events[k + 1].data, "error", JS("?")) =
                   JGet(inv.events[k].data, "error", JS(""))

\* an exception after a text block and a tool call were streamed
C16_Witness ==
    /\ inv.pc = "returned"
    /\ Len(inv.events) = 4
    /\ inv.events[1].type = SSE_EVENT_TEXT
    /\ inv.events[2].type = SSE_EVENT_TOOL_USE
    /\ EventCode(inv.events[3]) = "AGENT_ERROR"
    /\ inv.events[4] = Event(SSE_EVENT_DONE, DoneErrorData("boom"))
    /\ inv.full_response /= <<>>
    /\ inv.tool_calls /= <<>>

\* C17 as stated: process_streaming_request never ends by raising.
C17_NeverPropagates == inv.pc /= "raised"

\* C18 as stated: a turn whose stream ended with a successful done event
\* ends normally, whatever the store answers to the two writes of the
\* usage tracking.
C18_RecordingBestEffort ==
    (Finished /\ inv.stream_succeeded) => inv.pc = "returned"

\* C19: a check_rate_limit whose lookup failed, or that found no record or
\* no last_query_at, allows the request, and the call leaves both tables as
\* they were.
C19_FailsOpen ==
    [][ (chk' /= chk /\ chk'.fn = "check_rate_limit") =>
          /\ users' = users
          /\ nations' = nations
          /\ ( \/ chk'.faulted
               \/ Val(chk'.arg) = None
               \/ Val(Val(chk'.arg)).last_query_at = None )
             => ~Val(chk'.result).raised ]_vars

\* a lookup that failed for a user whose marker is one second old
C19_Witness ==
    /\ chk.fn = "check_rate_limit"
    /\ chk.faulted
    /\ Val(chk.arg) /= None
    /\ Val(Val(chk.arg)).last_query_at = Some(chk.t - 1)
    /\ Val(chk.result) = Allowed
    /\ users["u1"] = Val(chk.arg)

\* C20 as stated: the agent is never started for a user whose record was
\* flagged nb_needs_reauth when the request arrived.
C20_NeedsReauthRejected ==
    \A u \in Users :
        ( /\ inv.user_id = u
          /\ inv.pre_users[u] /= None
          /\ Val(inv.pre_users[u]).nb_needs_reauth ) => ~inv.agent_started

\* the codes of the admission rejections
RejectionCodes == { "RATE_LIMIT_EXCEEDED", "NB_NOT_CONNECTED", "NB_NEEDS_REAUTH" }

C22_UserNotFound ==
    \A u \in Users :
        ( /\ Finished
          /\ Truthy(inv.query)
          /\ inv.user_id = u
          /\ inv.pre_users[u] = None ) =>
            /\ Len(inv.events) = 1
            /\ inv.events[1].type = SSE_EVENT_ERROR
            /\ EventCode(inv.events[1]) = "USER_NOT_FOUND"

\* the first field missing from the request, in the order query, user_id,
\* nation_slug ("" when none is missing)
FirstMissing ==
    IF inv.query = "" THEN "query"
    ELSE IF inv.user_id = "" THEN "user_id"
    ELSE IF inv.nation_slug = "" THEN "nation_slug"
    ELSE ""

RECURSIVE JEq(_, _)
JEq(a, b) ==
    IF a.kind /= b.kind THEN FALSE
    ELSE IF a.kind \in {"str", "lit"} THEN a.s = b.s
    ELSE IF Len(a.items) /= Len(b.items) THEN FALSE
    ELSE IF a.kind = "arr"
         THEN \A i \in 1..Len(a.items) : JEq(a.items[i], b.items[i])
         ELSE \A i \in 1..Len(a.items) :
                \E j \in 1..Len(b.items) :
                    /\ a.items[i][1] = b.items[j][1]
                    /\ JEq(a.items[i][2], b.items[j][2])

\* C24 as stated: the tool_id issued for one call and the tool_id computed
\* for another are equal exactly when the two calls have the same tool name
\* and inputs equal up to key order, whichever processes computed them.
C24_FingerprintFunction ==
    (client /= None /\ chk.fn = "tool_id") =>
        LET issued == Val(client)
            call == Val(chk.arg)
        IN  (PyStr(JGet(issued, "tool_id", JS(""))) = Val(chk.result))
              <=> /\ PyStr(JGet(issued, "tool_name", JS(""))) = call.name
                  /\ JEq(JGet(issued, "tool_input", JS("")), call.input)

\* the text of the text events of a sequence of events, concatenated in order
RECURSIVE EventTexts(_)
EventTexts(evs) ==
    IF Len(evs) = 0 THEN ""
    ELSE (IF Head(evs).type = SSE_EVENT_TEXT
          THEN PyStr(JGet(Head(evs).data, "text", JS("")))
          ELSE "") \o EventTexts(Tail(evs))

\* the payloads of the tool_use events of a sequence of events, in order
RECURSIVE EventToolUses(_)
EventToolUses(evs) ==
    IF Len(evs) = 0 THEN <<>>
    ELSE (IF Head(evs).type = SSE_EVENT_TOOL_USE THEN << Head(evs).data >> ELSE <<>>)
            \o EventToolUses(Tail(evs))

\* C30: a done event without error carries as response the concatenation of
\* the text of all text events emitted before it, in order, and as
\* tool_calls the (name, input) of all tool_use events before it, in order.
C30_DoneCarriesTurn ==
    \A k \in EventIndices :
        (inv.events[k].type = SSE_EVENT_DONE /\ ~JHas(inv.events[k].data, "error")) =>
            LET before == SubSeq(inv.events, 1, k - 1)
            IN  /\ JGet(inv.events[k].data, "response", JS("?")) = JS(EventTexts(before))
                /\ JGet(inv.events[k].data, "tool_calls", JS("?")) =
                       JA(EventToolUses(before))

\* a turn of two text fragments, and its done event
C30_Witness ==
    /\ Len(inv.events) = 3
    /\ inv.events[1] = Event(SSE_EVENT_TEXT, TextData("hi"))
    /\ inv.events[2] = Event(SSE_EVENT_TEXT, TextData("all done"))
    /\ inv.events[3].type = SSE_EVENT_DONE
    /\ JGet(inv.events[3].data, "response", JS("?")) = JS("hiall done")

(***************************************************************************)
(* Properties of the token refresh job.                                    *)
(***************************************************************************)
Flagged(item) == item /= None /\ Val(item).nb_needs_reauth = Some(TRUE)
\* a result was appended in this step
ResultAppended == Len(job'.results) = Len(job.results) + 1
AppendedResult == job'.results[Len(job'.results)]
TokenPair(secret) == << secret.access_token, secret.refresh_token >>

\* the failures of a refresh that the claim lists
ExchangeFailures ==
    { ErrRejected, ErrNetwork, ErrNoRefreshToken, ErrNoSlug, ErrNoAccessToken }

\* C25 as stated: when refresh_user_token ends in one of the failures
\* (provider rejection, network error, no stored refresh token, no stored
\* slug, no access token in the response), the user record is flagged
\* nb_needs_reauth = true, and at most one exchange call was made for the
\* user in the run.
C25_FailureFlags ==
    [][ (ResultAppended /\ ~AppendedResult.success
            /\ AppendedResult.error \in ExchangeFailures) =>
          /\ Flagged(users'[AppendedResult.user_id])
          /\ job'.exchanges[AppendedResult.user_id] <= 1 ]_vars

\* C26: when refresh_user_token ends in success, the secret holds the access
\* token of the response with the refresh token of the response (the old
\* refresh token only when the response has none, and otherwise not the old
\* one), the slug is the one that was stored, and the user record has the
\* new expiry and nb_needs_reauth = false.
C26_SuccessfulRefresh ==
    [][ (ResultAppended /\ AppendedResult.success) =>
          LET u == AppendedResult.user_id
              old == Val(job.tokens)
              response == Val(job.response)
          IN  /\ secrets'[u] /= None
              /\ Val(secrets'[u]).access_token = response.access_token
              /\ response.refresh_token /= "" =>
                    /\ Val(secrets'[u]).refresh_token = response.refresh_token
                    /\ Val(secrets'[u]).refresh_token /= old.refresh_token
              /\ response.refresh_token = "" =>
                    Val(secrets'[u]).refresh_token = old.refresh_token
              /\ Val(secrets'[u]).nb_slug = old.nb_slug
              /\ Val(users'[u]).nb_token_expires_at = Some(now + response.expires_in)
              /\ Val(users'[u]).nb_needs_reauth = Some(FALSE) ]_vars

\* the first run refreshed u1, whose secret held the pair (a0, r0)
C26_Witness ==
    /\ job.runs = 1
    /\ \E k \in 1..Len(job.results) : job.results[k] = RefreshResult("u1", TRUE, "")
    /\ TokenPair(Val(secrets["u1"])) = << "a1", "r1" >>
    /\ Val(secrets["u1"]).nb_slug = "n1"
    /\ Val(users["u1"]).nb_needs_reauth = Some(FALSE)
    /\ Val(users["u1"]).nb_token_expires_at = Some(EXPIRES_IN_HOURS)

\* C27 as stated: a run whose scan returned credentials ends with a report
\* that counts every one of them: processed is the number scanned,
\* processed = succeeded + failed, and there is one failure entry per failed
\* credential.
C27_BatchCompletes ==
    (job.pc = "done" /\ Len(job.scanned) > 0) =>
        LET report == Val(job.report)
        IN  /\ report.statusCode = 200
            /\ report.processed = Len(job.scanned)
            /\ \A k \in 1..Len(job.scanned) : job.results[k].user_id = job.scanned[k]
            /\ report.processed = report.succeeded + report.failed
            /\ Len(report.failures) = report.failed

\* C28: a user whose record is flagged nb_needs_reauth = true is not among
\* the users a run has still to refresh, in any run: no get_user_tokens and
\* no exchange call is made for it.
C28_FlaggedNeverRefreshed ==
    \A u \in RefreshUsers :
        Flagged(users[u]) => \A k \in 1..Len(job.queue) : job.queue[k] /= u

\* the second run, after the first one flagged u1, refreshes u2 alone
C28_Witness ==
    /\ job.runs = 2
    /\ job.pc = "exchange"
    /\ job.scanned = << "u2" >>
    /\ Flagged(users["u1"])
    /\ secrets["u1"] /= None
    /\ Val(secrets["u1"]).refresh_token = ""

\* C29: a read of the secret made while the job refreshes it sees the pair the
\* job read (the old pair) until store_nb_tokens has written, and from then
\* on the access token of the response with the refresh token stored for it
\* (the new pair): never one token of each.
C29_PairReplacedWhole ==
    [][ (chk' /= chk /\ chk'.fn = "get_user_tokens") =>
          LET seen == Val(chk'.result)
              old == Val(job.tokens)
          IN  /\ seen /= None
              /\ job.pc \in {"exchange", "store"} =>
                    TokenPair(Val(seen)) = TokenPair(old)
              /\ job.pc = "status" =>
                    TokenPair(Val(seen)) =
                        << Val(job.response).access_token,
                           IF Val(job.response).refresh_token /= ""
                           THEN Val(job.response).refresh_token
                           ELSE old.refresh_token >> ]_vars

\* a read after the store of the pair (a1, r1) over the pair (a0, r0)
C29_Witness ==
    /\ chk.fn = "get_user_tokens"
    /\ job.pc = "status"
    /\ TokenPair(Val(job.tokens)) = << "a0", "r0" >>
    /\ Val(chk.arg) = Head(job.queue)
    /\ TokenPair(Val(Val(chk.result))) = << "a1", "r1" >>

(***************************************************************************)
(* Properties of the prompt.                                               *)
(***************************************************************************)
ContextHints == { "page_type", "person_name", "person_id", "list_name", "event_name" }
Hinted(context) ==
    /\ context /= None
    /\ \E key \in ContextHints : DictGet(Val(context), key, "") /= ""
AsksUndo(query, undo_stack) ==
    /\ \E k \in 1..Len(undo_phrases) : Contains(undo_phrases[k], lower(query))
    /\ Len(undo_stack) > 0
StartsWith(prefix, s) == Len(s) >= Len(prefix) /\ SubSeq(s, 1, Len(prefix)) = prefix
UndoHeader == "[Recent Actions (can be undone):"

\* C31: the prompt is the page-context section (exactly when a context hint
\* is present), then the undo context block (exactly when the query holds an
\* undo phrase in any letter case and the undo stack is not empty), then the
\* query, joined by blank lines; with neither section it is the query itself.
C31_PromptOrder ==
    chk.fn = "full_prompt" =>
        LET a == Val(chk.arg)
            prompt == Val(chk.result)
            hinted == Hinted(a.context)
            asks == AsksUndo(a.query, a.undo_stack)
            sections ==
                (IF hinted THEN context_section(a.context) ELSE <<>>)
                \o (IF asks THEN undo_section(a.query, a.undo_stack) ELSE <<>>)
        IN  /\ prompt = Join("\n\n", sections \o << a.query >>)
            /\ hinted <=> StartsWith("[Context: ", prompt)
            /\ asks <=> Contains(UndoHeader, prompt)
            /\ (hinted /\ asks) =>
                  Contains("]\n\n" \o UndoHeader, prompt)
            /\ (~hinted /\ ~asks) => prompt = a.query

\* a query with an undo phrase in capitals, a page context and an undo stack
C31_Witness ==
    /\ chk.fn = "full_prompt"
    /\ Val(chk.arg).query = "Please UNDO"
    /\ Hinted(Val(chk.arg).context)
    /\ Len(Val(chk.arg).undo_stack) = 2
    /\ StartsWith("[Context: Page type: person, Viewing person: Ann, Person ID: 7]\n\n"
                  \o UndoHeader, Val(chk.result))

\* C32: the undo context block lists the last 5 entries of the undo stack
\* and no other, the most recent first, numbered from 1, one line per entry
\* of the form "{description} - To undo: {instruction}", the instruction
\* being that of the entry's undo type, undo data and tool name.
C32_UndoBlock ==
    (chk.fn = "full_prompt"
        /\ AsksUndo(Val(chk.arg).query, Val(chk.arg).undo_stack)) =>
        LET stack == Val(chk.arg).undo_stack
            n == Len(stack)
            shown == IF n > 5 THEN 5 ELSE n
            line(i) ==
                LET entry == stack[n + 1 - i]
                IN  "  " \o ToString(i) \o ". "
                    \o DictGet(entry, "description", "Unknown action")
                    \o " - To undo: "
                    \o get_undo_instruction(
                          DictGet(entry, "undoType", "not_undoable"),
                          DictGet(entry, "undoData", <<>>),
                          DictGet(entry, "toolName", "unknown"))
        IN  Contains(UndoHeader \o "\n"
                     \o Join("\n", [i \in 1..shown |-> line(i)])
                     \o "\n]\n\n" \o Val(chk.arg).query,
                     Val(chk.result))

\* an undo stack of six entries whose oldest entry alone has a description
C32_Witness ==
    /\ chk.fn = "full_prompt"
    /\ AsksUndo(Val(chk.arg).query, Val(chk.arg).undo_stack)
    /\ Len(Val(chk.arg).undo_stack) = 6
    /\ DictGet(Val(chk.arg).undo_stack[1], "description", "") = "Added Ann"
    /\ Contains("\n  1. Unknown action - To undo: This action cannot be undone\n",
                Val(chk.result))
    /\ Contains("\n  5. Unknown action - To undo: This action cannot be undone\n]",
                Val(chk.result))
    /\ ~Contains("Added Ann", Val(chk.result))

\* C33: _get_undo_instruction returns the instruction of the reverse action
\* when the undo type is one of delete_created, remove_from_list,
\* add_to_list, remove_tag, add_tag and every field of that case has a value
\* (for delete_created: a known creation tool and the id it captured), and
\* "This action cannot be undone" otherwise.
C33_UndoInstruction ==
    chk.fn = "get_undo_instruction" =>
        LET a == Val(chk.arg)
            given(key) == DictGet(a.undo_data, key, "") /= ""
            id_key == [create_signup |-> "signup_id", create_contact |-> "contact_id",
                       create_donation |-> "donation_id",
                       create_event_rsvp |-> "rsvp_id"]
            reverse_tool ==
                CASE a.undo_type = "delete_created" ->
                        [create_signup |-> "delete_signup",
                         create_contact |-> "delete_contact",
                         create_donation |-> "delete_donation",
                         create_event_rsvp |-> "delete_event_rsvp"]
                            [a.original_tool_name]
                  [] a.undo_type = "remove_from_list" -> "remove_from_list"
                  [] a.undo_type = "add_to_list" -> "add_to_list"
                  [] a.undo_type = "remove_tag" -> "remove_signup_tagging"
                  [] a.undo_type = "add_tag" -> "add_signup_tagging"
            required ==
                CASE a.undo_type = "delete_created" -> { id_key[a.original_tool_name] }
                  [] a.undo_type \in {"remove_from_list", "add_to_list"} ->
                        { "person_id", "list_id" }
                  [] a.undo_type = "remove_tag" -> { "signup_id", "tagging_id" }
                  [] a.undo_type = "add_tag" -> { "signup_id", "tag_name" }
            undoable ==
                /\ a.undo_type \in {"delete_created", "remove_from_list", "add_to_list",
                                    "remove_tag", "add_tag"}
                /\ a.undo_type = "delete_created" =>
                      a.original_tool_name \in DOMAIN id_key
                /\ \A key \in required : given(key)
        IN  IF undoable
            THEN /\ StartsWith("call " \o reverse_tool \o " with ", Val(chk.result))
                 /\ \A key \in required :
                       Contains("=" \o a.undo_data[key], Val(chk.result))
            ELSE Val(chk.result) = "This action cannot be undone"

\* the instruction of a removal from a list, and the fallback of a creation
\* whose id was not captured
C33_Witness ==
    /\ chk.fn = "get_undo_instruction"
    /\ \/ /\ Val(chk.arg).undo_type = "remove_from_list"
          /\ Val(chk.result) = "call remove_from_list with person_id=p1, list_id=l4"
       \/ /\ Val(chk.arg).undo_type = "delete_created"
          /\ Val(chk.arg).original_tool_name = "create_signup"
          /\ Val(chk.arg).undo_data = [contact_id |-> "67890"]
          /\ Val(chk.result) = "This action cannot be undone"

(***************************************************************************)
(* Properties of turns that share a process.                               *)
(***************************************************************************)
\* C34 as stated: every tool call of a turn runs with the slug and the
\* access token resolved for the organization of that turn, also when the
\* turn of another organization is in flight in the same process.
C34_TenantIsolation ==
    \A t \in Turns :
        \A k \in 1..Len(proc.turns[t].calls) :
            /\ proc.turns[t].calls[k].slug = t
            /\ proc.turns[t].calls[k].token = proc.turns[t].nb_token

\* C35 as stated: the counter of an organization with a positive
\* queries_limit never exceeds that limit.
C35_QuotaCeiling ==
    \A n \in Nations :
        (nations[n] /= None /\ Val(nations[n]).queries_limit /= None
            /\ Val(Val(nations[n]).queries_limit) > 0)
        => Used(nations[n]) <= Val(Val(nations[n]).queries_limit)

(***************************************************************************)
(* Properties of overlapping runs of the token refresh job.                *)
(***************************************************************************)
RunsAtRest == \A r \in Runs : overlap.run[r].pc \in {"idle", "done", "aborted"}
Executed(r) == overlap.run[r].pc = "done" /\ overlap.run[r].result /= None
StoredRefreshToken == Val(secrets["u1"]).refresh_token

\* C36 as stated: once refresh_user_token has been executed for a credential
\* and no run is in flight, the stored refresh token is one the provider has
\* not consumed, or the credential is flagged needs_reauth.
C36_ConsumedTokenFlagged ==
    (RunsAtRest /\ \E r \in Runs : Executed(r))
        => \/ StoredRefreshToken \notin overlap.consumed
           \/ Flagged(users["u1"])

\* C37 as stated: two runs that both processed the credential do not end
\* with a freshly rotated pair stored, its refresh token not consumed, and
\* the credential flagged needs_reauth.
C37_OverlapNoFalseFlag ==
    (\A r \in Runs : Executed(r))
        => ~ /\ secrets["u1"] /= ValidSecret
             /\ StoredRefreshToken \notin overlap.consumed
             /\ Flagged(users["u1"])

(***************************************************************************)
(* Properties of the credential paths.                                     *)
(***************************************************************************)
\* the last run of the job rotated the tokens of u1 with success
RotatedU1 ==
    /\ job.pc = "done"
    /\ \E k \in 1..Len(job.results) :
          job.results[k].user_id = "u1" /\ job.results[k].success

\* C38 as stated: after a successful rotation of the credential of a tenant,
\* the next request of that tenant, on the nation path (nation n1) and on the
\* per-user path (user u1), resolves the new access token for its agent call.
C38_RotatedRecordRead ==
    (RotatedU1 /\ chk.t = job.runs /\ ~chk.faulted
        /\ \/ chk.fn = "get_nb_tokens_by_nation" /\ Val(chk.arg) = "n1"
           \/ chk.fn = "get_nb_tokens" /\ Val(chk.arg) = "u1")
    => /\ chk.result /= None
       /\ Val(chk.result).access_token = "a" \o ToString(job.runs)

\* the per-user path alone reads the rotated record
LegacyPathReadsRotated ==
    (RotatedU1 /\ chk.t = job.runs /\ ~chk.faulted
        /\ chk.fn = "get_nb_tokens" /\ Val(chk.arg) = "u1")
    => /\ chk.result /= None
       /\ Val(chk.result).access_token = "a" \o ToString(job.runs)

====
